---- MODULE Spec2Model ----
(***************************************************************************)
(* Verification model of the Website & App Blocker (blocker.py,            *)
(* tray_blocker.py).                                                       *)
(*                                                                         *)
(* Text is modelled by its list of lines: a Python string s is represented *)
(* by s.split("\n"), a non-empty sequence of newline-free strings (the     *)
(* empty string is <<"">>, "a\n" is <<"a", "">>).  This representation is  *)
(* one-to-one, so split, join, rstrip and + are modelled exactly.          *)
(***************************************************************************)
EXTENDS Integers, Sequences, FiniteSets, TLC

VARIABLES
    hosts,          \* the hosts file: NoFile, or its content as a list of lines
    hostsBefore,    \* content read by the last hosts operation
    hostsBefore2,   \* content read by the hosts operation before that one
    lastOp,         \* the last hosts operation: [name, sites]
    prevOp,         \* the hosts operation before the last one
    hostsWas,       \* the hosts file before the last hosts operation
    hostsDenied,    \* the access that was denied to it: "none", "read", "write"
    hostsRaised,    \* the exception it raised to its caller ("none": returned)
    registry,       \* the policy store: vendor location -> key state
    regBefore,      \* the policy store before the last policy operation
    lastUrlOp,      \* the last policy operation: [name, urls]
    prevUrlOp,      \* the policy operation before the last one
    urlFails,       \* the OS failures the last policy operation met
    urlRaised,      \* whether it raised an exception to its caller
    procTable,      \* the process table: image names of the running processes
    tableBefore,    \* the process table when the last kill_blocked_apps began
    appsArg,        \* the list the last kill_blocked_apps was called with
    snapshot,       \* the process snapshot it took (NoSnapshot: none taken)
    raisedFor,      \* the names whose taskkill (or Popen) call raised in that call
    attempts,       \* the names it called taskkill /F /IM for, in order
    killed,         \* its return value
    requests,       \* what the last restart_browsers asked for, in order
    listing,        \* who last called for a process listing and how it went
    lock,           \* the lock file: NoLockFile, or its text
    alive,          \* the pids of the running processes
    pc,             \* where each daemon command stands
    pidRead,        \* the pid its current get_daemon_pid read from the lock
    log,            \* what each daemon command found and did, in order
    tray,           \* the tray application's background loop
    stopPc,         \* where the `stop` command stands
    stopPid,        \* the pid its get_daemon_pid read from the lock
    lpc,            \* where each enforcement process stands in its code
    calls,          \* the calls it made in its current tick (or command)
    contentRead,    \* the hosts content its block_sites in flight has read
    exitAt,         \* where it stood when a stop ended it ("none": running)
    sawPartial,     \* its last read_hosts fell inside another's rewrite
    lastTick,       \* how its previous tick ended: "none", "ok" or "failed"
    daemon_running, \* TrayBlocker.daemon_running
    is_blocking,    \* TrayBlocker.is_blocking
    app_blocking_enabled,   \* TrayBlocker.app_blocking_enabled
    uiPc,           \* where the tray's menu thread stands in a menu handler
    uiRead,         \* the hosts content its hosts operation in flight has read
    blocked_sites,  \* the config file's saved "blocked_sites" list
    blocked_urls,   \* the config file's saved "blocked_urls" list
    surface         \* the enforcement surface a run exercises; the surfaces
                    \* share no state, so their operations are explored apart

hostsVars == <<hosts, hostsBefore, hostsBefore2, lastOp, prevOp, hostsWas,
              hostsDenied, hostsRaised>>
policyVars == <<registry, regBefore, lastUrlOp, prevUrlOp, urlFails, urlRaised>>

appVars == <<procTable, tableBefore, appsArg, snapshot, raisedFor, attempts, killed,
            requests, listing>>

daemonVars == <<lock, alive, pc, pidRead, log, tray, stopPc, stopPid>>

loopVars == <<lpc, calls, contentRead, exitAt, sawPartial, lastTick, daemon_running,
              is_blocking, app_blocking_enabled, uiPc, uiRead>>

configVars == <<blocked_sites, blocked_urls>>

vars == <<hostsVars, policyVars, appVars, daemonVars, loopVars, configVars, surface>>

\* ------------------------------------------------------------------------
\* Bounds of the model
\* ------------------------------------------------------------------------
MaxLines == 4       \* lines of the initial hosts file
MaxSites == 2       \* length of a blocked_sites list
MaxUrls == 2        \* length of a blocked_urls list
MaxApps == 2        \* length of a blocked_apps list
NumDaemons == 2     \* `daemon` commands started

\* ------------------------------------------------------------------------
\* blocker.py constants
\* ------------------------------------------------------------------------
BLOCK_MARKER_START == "# === WEBSITE BLOCKER START ==="
BLOCK_MARKER_END == "# === WEBSITE BLOCKER END ==="
REDIRECT_IP == "127.0.0.1"

\* A missing file: the only value that is no content (a content has a line).
NoFile == <<>>

\* A marker line with surrounding blanks, as a hand-edited file may hold it.
PaddedStart == "  # === WEBSITE BLOCKER START ===  "

\* Lines an initial hosts file is made of.
HostLines == {"", "10.0.0.1 a.lan", "10.0.0.2 b.lan",
              BLOCK_MARKER_START, BLOCK_MARKER_END, PaddedStart}

Sites == {"x.com", "www.x.com"}

SeqsUpTo(S, n) == UNION {[1..k -> S] : k \in 0..n}

\* blocked_sites lists: the callers keep them free of duplicates
\* (main: "if site not in sites").
SiteLists ==
    {s \in SeqsUpTo(Sites, MaxSites) :
        \A i, j \in 1..Len(s) : s[i] = s[j] => i = j}

\* Contents of a file of 1..MaxLines lines.
HostContents == UNION {[1..k -> HostLines] : k \in 1..MaxLines}

\* ------------------------------------------------------------------------
\* Strings as line lists
\* ------------------------------------------------------------------------
\* Mutant of Strip: the line is compared without strip().
StripNone(line) == line

\* str.strip() on one line, for the lines of the model.
Strip(line) == IF line = PaddedStart THEN BLOCK_MARKER_START ELSE line

\* s + t
Cat(s, t) == SubSeq(s, 1, Len(s) - 1) \o <<s[Len(s)] \o t[1]>> \o Tail(t)

\* "\n"
NL == <<"", "">>

\* "\n".join(lines); the join of no line and of one empty line are both ""
Join(lines) == IF lines = <<>> THEN <<"">> ELSE lines

\* Mutant of RStripNL: the last line is cut whatever it holds.
RStripLast(s) == IF Len(s) > 1 THEN SubSeq(s, 1, Len(s) - 1) ELSE s

\* s.rstrip("\n")
RECURSIVE RStripNL(_)
RStripNL(s) ==
    IF Len(s) > 1 /\ s[Len(s)] = ""
    THEN RStripNL(SubSeq(s, 1, Len(s) - 1))
    ELSE s

\* ------------------------------------------------------------------------
\* Hosts file (blocker.py)
\* ------------------------------------------------------------------------
read_hosts(file) == IF file = NoFile THEN <<"">> ELSE file

\* Mutant of RemoveLoop: the END marker does not reset inside_block.
RECURSIVE RemoveLoopNoReset(_, _, _, _)
RemoveLoopNoReset(lines, i, inside_block, new_lines) ==
    IF i > Len(lines) THEN new_lines
    ELSE IF Strip(lines[i]) = BLOCK_MARKER_START
         THEN RemoveLoopNoReset(lines, i + 1, TRUE, new_lines)
    ELSE IF Strip(lines[i]) = BLOCK_MARKER_END
         THEN RemoveLoopNoReset(lines, i + 1, inside_block, new_lines)
    ELSE IF ~inside_block
         THEN RemoveLoopNoReset(lines, i + 1, inside_block,
                                Append(new_lines, lines[i]))
    ELSE RemoveLoopNoReset(lines, i + 1, inside_block, new_lines)

\* The loop of remove_blocker_entries over lines[i..], new_lines so far.
RECURSIVE RemoveLoop(_, _, _, _)
RemoveLoop(lines, i, inside_block, new_lines) ==
    IF i > Len(lines) THEN new_lines
    ELSE IF Strip(lines[i]) = BLOCK_MARKER_START
         THEN RemoveLoop(lines, i + 1, TRUE, new_lines)
    ELSE IF Strip(lines[i]) = BLOCK_MARKER_END
         THEN RemoveLoop(lines, i + 1, FALSE, new_lines)
    ELSE IF ~inside_block
         THEN RemoveLoop(lines, i + 1, inside_block, Append(new_lines, lines[i]))
    ELSE RemoveLoop(lines, i + 1, inside_block, new_lines)

remove_blocker_entries(content) == Join(RemoveLoop(content, 1, FALSE, <<>>))

RedirectLine(site) == REDIRECT_IP \o " " \o site

block_lines(sites) ==
    <<BLOCK_MARKER_START>> \o [i \in 1..Len(sites) |-> RedirectLine(sites[i])]
        \o <<BLOCK_MARKER_END>>

\* Mutant of BlockContent: the old content is not rstripped before the
\* region is appended.
BlockContentNoRStrip(content, sites) ==
    Cat(Cat(Cat(Cat(remove_blocker_entries(content), NL), NL),
            Join(block_lines(sites))), NL)

\* new_content of block_sites
BlockContent(content, sites) ==
    Cat(Cat(Cat(Cat(RStripNL(remove_blocker_entries(content)), NL), NL),
            Join(block_lines(sites))), NL)

\* Mutant of OpenRead: read_hosts catches every OSError, not only
\* FileNotFoundError.
OpenReadCatchAll(file, denied) ==
    [raised |-> "none", content |-> IF denied = "read" THEN <<"">> ELSE read_hosts(file)]

\* read_hosts() on a file whose reading may be denied: open(HOSTS_PATH, "r")
\* raises PermissionError, which the except FileNotFoundError lets pass.
OpenRead(file, denied) ==
    IF file # NoFile /\ denied = "read"
    THEN [raised |-> "PermissionError", content |-> <<"">>]
    ELSE [raised |-> "none", content |-> read_hosts(file)]

\* with open(HOSTS_PATH, "w") as f: f.write(new_content); a refused open
\* raises PermissionError and leaves the file as it is.
OpenWrite(file, new_content, denied) ==
    IF denied = "write"
    THEN [raised |-> "PermissionError", file |-> file]
    ELSE [raised |-> "none", file |-> new_content]

\* block_sites(sites) from read_hosts to the write: the file and the
\* exception that leaves the function.
BlockSites(file, sites, denied) ==
    LET r == OpenRead(file, denied) IN
    IF r.raised # "none" THEN [raised |-> r.raised, file |-> file]
    ELSE OpenWrite(file, BlockContent(r.content, sites), denied)

\* unblock_sites() likewise.
UnblockSites(file, denied) ==
    LET r == OpenRead(file, denied) IN
    IF r.raised # "none" THEN [raised |-> r.raised, file |-> file]
    ELSE OpenWrite(file, remove_blocker_entries(r.content), denied)

block_sites_under(sites, denied) ==
    LET content == read_hosts(hosts)
        out == BlockSites(hosts, sites, denied) IN
    /\ hosts' = out.file
    /\ hostsRaised' = out.raised
    /\ hostsDenied' = denied
    /\ hostsWas' = hosts
    /\ hostsBefore' = content
    /\ hostsBefore2' = hostsBefore
    /\ lastOp' = [name |-> "block", sites |-> sites]
    /\ prevOp' = lastOp

unblock_sites_under(denied) ==
    LET content == read_hosts(hosts)
        out == UnblockSites(hosts, denied) IN
    /\ hosts' = out.file
    /\ hostsRaised' = out.raised
    /\ hostsDenied' = denied
    /\ hostsWas' = hosts
    /\ hostsBefore' = content
    /\ hostsBefore2' = hostsBefore
    /\ lastOp' = [name |-> "unblock", sites |-> <<>>]
    /\ prevOp' = lastOp

\* The operations with every access granted.
block_sites(sites) == block_sites_under(sites, "none")

unblock_sites == unblock_sites_under("none")

NoOp == [name |-> "none", sites |-> <<>>]

HostsIdle ==
    /\ hosts = NoFile
    /\ hostsBefore = <<"">>
    /\ hostsBefore2 = <<"">>
    /\ lastOp = NoOp
    /\ prevOp = NoOp
    /\ hostsWas = NoFile
    /\ hostsDenied = "none"
    /\ hostsRaised = "none"

InitHostsVars ==
    /\ hosts \in HostContents \cup {NoFile}
    /\ hostsBefore = <<"">>
    /\ hostsBefore2 = <<"">>
    /\ lastOp = NoOp
    /\ prevOp = NoOp
    /\ hostsWas = NoFile
    /\ hostsDenied = "none"
    /\ hostsRaised = "none"

\* ------------------------------------------------------------------------
\* Browser policy store (blocker.py, winreg)
\* ------------------------------------------------------------------------
\* BROWSER_POLICY_KEYS: Chrome, Edge, Brave
Locations == {"Chrome", "Edge", "Brave"}

Urls == {"y.com/a", "y.com/a/*"}

UrlLists == SeqsUpTo(Urls, MaxUrls)

NoVals == [n \in {} |-> ""]

\* A vendor location: absent, or a key holding named string values.
NoKey == [present |-> FALSE, vals |-> NoVals]
Key(vals) == [present |-> TRUE, vals |-> vals]

\* str(idx) of a positive integer
Digit(d) ==
    CASE d = 0 -> "0" [] d = 1 -> "1" [] d = 2 -> "2" [] d = 3 -> "3"
      [] d = 4 -> "4" [] d = 5 -> "5" [] d = 6 -> "6" [] d = 7 -> "7"
      [] d = 8 -> "8" [] d = 9 -> "9"

RECURSIVE Str(_)
Str(i) == IF i < 10 THEN Digit(i) ELSE Str(i \div 10) \o Digit(i % 10)

\* winreg.SetValueEx(key, name, 0, REG_SZ, value)
SetValueEx(vals, name, value) ==
    [n \in DOMAIN vals \cup {name} |-> IF n = name THEN value ELSE vals[n]]

\* winreg.DeleteValue(key, name)
DeleteValue(vals, name) == [n \in DOMAIN vals \ {name} |-> vals[n]]

\* What an OS failure does to one location during one call:
\*   create      CreateKeyEx / OpenKey is refused
\*   undeletable names whose DeleteValue raises OSError
\*   writeFailAt the SetValueEx that raises (0: none)
\*   keepKey     DeleteKey of the emptied container is refused
NoFailure ==
    [create |-> FALSE, undeletable |-> {}, writeFailAt |-> 0, keepKey |-> FALSE]

\* "Clear old entries first": EnumValue(key, i) / DeleteValue until EnumValue
\* raises; a value whose deletion fails is stepped over and stays.
ClearValues(vals, undeletable) ==
    [n \in DOMAIN vals \cap undeletable |-> vals[n]]

\* "Write new entries (1-indexed)": for idx, url in enumerate(urls, start=1)
RECURSIVE WriteEntries(_, _, _, _)
WriteEntries(vals, urls, idx, writeFailAt) ==
    IF idx > Len(urls) \/ idx = writeFailAt THEN vals
    ELSE WriteEntries(SetValueEx(vals, Str(idx), urls[idx]), urls, idx + 1,
                      writeFailAt)

\* The body of apply_url_blocks' loop for one reg_path.
ApplyLocation(key, urls, f) ==
    IF f.create THEN key
    ELSE Key(WriteEntries(ClearValues(key.vals, f.undeletable), urls, 1,
                          f.writeFailAt))

\* BROWSER_POLICY_KEYS, in the order the loops visit them
BROWSER_POLICY_KEYS == <<"Chrome", "Edge", "Brave">>

\* Whether the body of apply_url_blocks' loop raises for one reg_path:
\* CreateKeyEx is refused or a SetValueEx fails (a failing DeleteValue is
\* caught inside the body).
ApplyLocationRaises(urls, f) ==
    f.create \/ f.writeFailAt \in 1..Len(urls)

\* Mutant of Caught: the loop body has no except clause.
NotCaught(raised) == raised

\* "except PermissionError: pass / except Exception: pass" around the body
\* of the per-location loops: whatever the body raised, nothing leaves it.
Caught(raised) == FALSE

\* "for reg_path in BROWSER_POLICY_KEYS" of apply_url_blocks from the i-th
\* location on; an exception that leaves the body ends the loop.
RECURSIVE ApplyLoop(_, _, _, _)
ApplyLoop(reg, i, urls, fails) ==
    IF i > Len(BROWSER_POLICY_KEYS) THEN [reg |-> reg, raised |-> FALSE]
    ELSE LET loc == BROWSER_POLICY_KEYS[i]
             reg2 == [reg EXCEPT ![loc] = ApplyLocation(reg[loc], urls, fails[loc])]
         IN IF Caught(ApplyLocationRaises(urls, fails[loc]))
            THEN [reg |-> reg2, raised |-> TRUE]
            ELSE ApplyLoop(reg2, i + 1, urls, fails)

\* apply_url_blocks(urls): the new policy store
ApplyUrlBlocks(reg, urls, fails) ==
    IF urls = <<>> THEN reg
    ELSE ApplyLoop(reg, 1, urls, fails).reg

\* apply_url_blocks(urls): whether an exception reaches the caller
ApplyUrlBlocksRaises(reg, urls, fails) ==
    urls # <<>> /\ ApplyLoop(reg, 1, urls, fails).raised

\* The body of remove_url_blocks' loop for one reg_path.  A DeleteValue
\* that fails ends the value loop; the values are then taken as all left.
RemoveLocation(key, f) ==
    IF ~key.present \/ f.create THEN key
    ELSE LET left == IF f.undeletable \cap DOMAIN key.vals = {}
                     THEN NoVals ELSE key.vals
         IN IF f.keepKey THEN Key(left) ELSE NoKey

\* Whether that body raises: OpenKey fails on a missing key
\* (FileNotFoundError) or is refused; a failing DeleteValue and a failing
\* DeleteKey are caught inside the body.
RemoveLocationRaises(key, f) == ~key.present \/ f.create

\* Mutant of RemoveLoopLocations: a missing key ends the function (return
\* where the code has pass).
RECURSIVE RemoveLoopReturns(_, _, _)
RemoveLoopReturns(reg, i, fails) ==
    IF i > Len(BROWSER_POLICY_KEYS) THEN [reg |-> reg, raised |-> FALSE]
    ELSE LET loc == BROWSER_POLICY_KEYS[i]
             reg2 == [reg EXCEPT ![loc] = RemoveLocation(reg[loc], fails[loc])]
         IN IF RemoveLocationRaises(reg[loc], fails[loc])
            THEN [reg |-> reg2, raised |-> FALSE]
            ELSE RemoveLoopReturns(reg2, i + 1, fails)

\* "for reg_path in BROWSER_POLICY_KEYS" of remove_url_blocks from the i-th
\* location on.
RECURSIVE RemoveLoopLocations(_, _, _)
RemoveLoopLocations(reg, i, fails) ==
    IF i > Len(BROWSER_POLICY_KEYS) THEN [reg |-> reg, raised |-> FALSE]
    ELSE LET loc == BROWSER_POLICY_KEYS[i]
             reg2 == [reg EXCEPT ![loc] = RemoveLocation(reg[loc], fails[loc])]
         IN IF Caught(RemoveLocationRaises(reg[loc], fails[loc]))
            THEN [reg |-> reg2, raised |-> TRUE]
            ELSE RemoveLoopLocations(reg2, i + 1, fails)

RemoveUrlBlocks(reg, fails) == RemoveLoopLocations(reg, 1, fails).reg

RemoveUrlBlocksRaises(reg, fails) == RemoveLoopLocations(reg, 1, fails).raised

NoUrlOp == [name |-> "none", urls |-> <<>>]

apply_url_blocks(urls, fails) ==
    /\ registry' = ApplyUrlBlocks(registry, urls, fails)
    /\ regBefore' = registry
    /\ lastUrlOp' = [name |-> "apply", urls |-> urls]
    /\ prevUrlOp' = lastUrlOp
    /\ urlFails' = fails
    /\ urlRaised' = ApplyUrlBlocksRaises(registry, urls, fails)

remove_url_blocks(fails) ==
    /\ registry' = RemoveUrlBlocks(registry, fails)
    /\ regBefore' = registry
    /\ lastUrlOp' = [name |-> "remove", urls |-> <<>>]
    /\ prevUrlOp' = lastUrlOp
    /\ urlFails' = fails
    /\ urlRaised' = RemoveUrlBlocksRaises(registry, fails)

\* The values keys "1".."N" hold after a full replace by urls.
RECURSIVE Entries(_)
Entries(urls) ==
    IF urls = <<>> THEN NoVals
    ELSE SetValueEx(Entries(SubSeq(urls, 1, Len(urls) - 1)),
                    Str(Len(urls)), urls[Len(urls)])

\* What a location may hold before the program first writes it: nothing,
\* the entries of an earlier list, a lone higher ordinal, a foreign value.
PriorKeys ==
    {NoKey} \cup {Key(Entries(u)) : u \in UrlLists}
        \cup {Key(SetValueEx(NoVals, Str(MaxUrls + 1), "y.com/old")),
              Key(SetValueEx(NoVals, "legacy", "z.com"))}

NoFailures == [loc \in Locations |-> NoFailure]

PolicyIdle ==
    /\ registry = [loc \in Locations |-> NoKey]
    /\ regBefore = [loc \in Locations |-> NoKey]
    /\ lastUrlOp = NoUrlOp
    /\ prevUrlOp = NoUrlOp
    /\ urlFails = NoFailures
    /\ urlRaised = FALSE

InitPolicyVars ==
    /\ registry \in [Locations -> PriorKeys]
    /\ regBefore = [loc \in Locations |-> NoKey]
    /\ lastUrlOp = NoUrlOp
    /\ prevUrlOp = NoUrlOp
    /\ urlFails = NoFailures
    /\ urlRaised = FALSE

\* The failures one location may meet during one call.
FailureKinds ==
    {NoFailure,
     [NoFailure EXCEPT !.create = TRUE],
     [NoFailure EXCEPT !.undeletable = {"legacy", Str(MaxUrls + 1)}],
     [NoFailure EXCEPT !.keepKey = TRUE]}
        \cup {[NoFailure EXCEPT !.writeFailAt = k] : k \in 1..MaxUrls}

\* Failures at no location, at one, or at two of them.
FailureCases ==
    {f \in [Locations -> FailureKinds] : \E loc \in Locations : f[loc] = NoFailure}

\* The prior contents the failure cases are tried on.
FaultPriorKeys ==
    {k \in PriorKeys : Cardinality(DOMAIN k.vals) <= 1}
        \cup {Key(Entries([i \in 1..MaxUrls |-> "y.com/a"]))}

\* ------------------------------------------------------------------------
\* App blocking (blocker.py)
\* ------------------------------------------------------------------------
\* Process image names, as Task Manager shows them and as the config spells
\* them.
AppNames == {"A.exe", "a.exe", "B.exe", "C.exe"}

\* blocked_apps lists, without a name spelled the same way twice.
AppLists ==
    {a \in SeqsUpTo(AppNames, MaxApps) :
        \A i, j \in 1..Len(a) : a[i] = a[j] => i = j}

\* str.lower()
Lower(name) ==
    CASE name = "A.exe" -> "a.exe"
      [] name = "B.exe" -> "b.exe"
      [] name = "C.exe" -> "c.exe"
      [] OTHER -> name

\* get_running_processes(): the lowercase first CSV field of every line of
\* tasklist's output; the empty set when the listing raises.
\* Mutant of get_running_processes: a listing that failed is taken for one
\* that worked.
get_running_processes_unguarded(table, listingFails) == {Lower(n) : n \in table}

get_running_processes(table, listingFails) ==
    IF listingFails THEN {} ELSE {Lower(n) : n \in table}

\* The record of a call for a listing: by whom, and whether tasklist was
\* not run ("not taken"), raised ("failed") or gave its output ("listed").
Listing(caller, outcome) == [caller |-> caller, outcome |-> outcome]

NoListing == Listing("none", "not taken")

\* taskkill /F /IM app: ends every process of that image name (Windows
\* compares image names without regard to case).
TaskkillImage(table, app) == {n \in table : Lower(n) # Lower(app)}

\* Mutant of KillLoop: the name is looked up in the snapshot as spelled.
RECURSIVE KillLoopNoLower(_, _, _, _, _)
KillLoopNoLower(apps, i, running, raising, st) ==
    IF i > Len(apps) THEN st
    ELSE IF apps[i] \in running
         THEN IF apps[i] \in raising
              THEN KillLoopNoLower(apps, i + 1, running, raising,
                       [st EXCEPT !.attempts = Append(@, apps[i])])
              ELSE KillLoopNoLower(apps, i + 1, running, raising,
                       [attempts |-> Append(st.attempts, apps[i]),
                        killed |-> st.killed + 1,
                        table |-> TaskkillImage(st.table, apps[i])])
    ELSE KillLoopNoLower(apps, i + 1, running, raising, st)

\* Mutant of KillLoop: the taskkill call is not inside try/except, so the
\* first call that raises ends the loop.
RECURSIVE KillLoopAbort(_, _, _, _, _)
KillLoopAbort(apps, i, running, raising, st) ==
    IF i > Len(apps) THEN st
    ELSE IF Lower(apps[i]) \in running
         THEN IF apps[i] \in raising
              THEN [st EXCEPT !.attempts = Append(@, apps[i])]
              ELSE KillLoopAbort(apps, i + 1, running, raising,
                       [attempts |-> Append(st.attempts, apps[i]),
                        killed |-> st.killed + 1,
                        table |-> TaskkillImage(st.table, apps[i])])
    ELSE KillLoopAbort(apps, i + 1, running, raising, st)

\* "for app in apps" of kill_blocked_apps from apps[i] on; st holds the
\* calls made, the count and the process table so far.
RECURSIVE KillLoop(_, _, _, _, _)
KillLoop(apps, i, running, raising, st) ==
    IF i > Len(apps) THEN st
    ELSE IF Lower(apps[i]) \in running
         THEN IF apps[i] \in raising
              THEN KillLoop(apps, i + 1, running, raising,
                       [st EXCEPT !.attempts = Append(@, apps[i])])
              ELSE KillLoop(apps, i + 1, running, raising,
                       [attempts |-> Append(st.attempts, apps[i]),
                        killed |-> st.killed + 1,
                        table |-> TaskkillImage(st.table, apps[i])])
    ELSE KillLoop(apps, i + 1, running, raising, st)

NoSnapshot == {"<none>"}

kill_blocked_apps(apps, listingFails, raising) ==
    LET running == get_running_processes(procTable, listingFails)
        st == KillLoop(apps, 1, running, raising,
                       [attempts |-> <<>>, killed |-> 0, table |-> procTable])
    IN /\ appsArg' = apps
       /\ requests' = requests
       /\ listing' = Listing("kill_blocked_apps",
                             IF apps = <<>> THEN "not taken"
                             ELSE IF listingFails THEN "failed" ELSE "listed")
       /\ tableBefore' = procTable
       /\ raisedFor' = raising
       /\ IF apps = <<>>
          THEN /\ snapshot' = NoSnapshot
               /\ attempts' = <<>>
               /\ killed' = 0
               /\ procTable' = procTable
          ELSE /\ snapshot' = running
               /\ attempts' = st.attempts
               /\ killed' = st.killed
               /\ procTable' = st.table

AppsIdle ==
    /\ procTable = {}
    /\ tableBefore = {}
    /\ appsArg = <<>>
    /\ snapshot = NoSnapshot
    /\ raisedFor = {}
    /\ attempts = <<>>
    /\ killed = 0
    /\ requests = <<>>
    /\ listing = NoListing

InitAppVars ==
    /\ procTable \in SUBSET AppNames
    /\ tableBefore = {}
    /\ appsArg = <<>>
    /\ snapshot = NoSnapshot
    /\ raisedFor = {}
    /\ attempts = <<>>
    /\ killed = 0
    /\ requests = <<>>
    /\ listing = NoListing

\* ------------------------------------------------------------------------
\* Browser restart (blocker.py restart_browsers)
\* ------------------------------------------------------------------------
BROWSERS == <<"chrome.exe", "msedge.exe", "brave.exe", "firefox.exe", "opera.exe">>

BrowserNames == {BROWSERS[i] : i \in 1..Len(BROWSERS)}

\* "for browser in BROWSERS: if browser.lower() in running": the closed list
RECURSIVE ClosedFrom(_, _)
ClosedFrom(i, running) ==
    IF i > Len(BROWSERS) THEN <<>>
    ELSE (IF Lower(BROWSERS[i]) \in running THEN <<BROWSERS[i]>> ELSE <<>>)
             \o ClosedFrom(i + 1, running)

\* One request per browser of the list, in list order.
Phase(kind, closed) == [i \in 1..Len(closed) |-> [kind |-> kind, image |-> closed[i]]]

\* Mutant of RestartRequests: each browser is closed, killed and relaunched
\* before the next one is touched.
RECURSIVE RestartRequestsPerBrowser(_)
RestartRequestsPerBrowser(closed) ==
    IF closed = <<>> THEN <<>>
    ELSE Phase("close", <<Head(closed)>>) \o Phase("kill", <<Head(closed)>>)
             \o Phase("launch", <<Head(closed)>>)
             \o RestartRequestsPerBrowser(Tail(closed))

\* The three loops of restart_browsers: taskkill /IM for every closed
\* browser, then (if closed) taskkill /F /IM for every one, then Popen for
\* every one.
RestartRequests(closed) ==
    Phase("close", closed) \o Phase("kill", closed) \o Phase("launch", closed)

\* Mutant of Relaunched: Popen is not inside try/except, so the first
\* relaunch that raises ends the loop.
RECURSIVE RelaunchedAbort(_, _)
RelaunchedAbort(closed, notLaunched) ==
    IF closed = <<>> \/ Head(closed) \in notLaunched THEN {}
    ELSE {Head(closed)} \cup RelaunchedAbort(Tail(closed), notLaunched)

\* The third loop of restart_browsers: the browsers its Popen calls
\* started; a Popen that raises is caught and the loop goes on.
RECURSIVE Relaunched(_, _)
Relaunched(closed, notLaunched) ==
    IF closed = <<>> THEN {}
    ELSE (IF Head(closed) \in notLaunched THEN {} ELSE {Head(closed)})
             \cup Relaunched(Tail(closed), notLaunched)

\* restart_browsers(); listingFails: tasklist raises; notLaunched: the
\* browsers whose Popen raises (caught, the loop goes on).
restart_browsers(listingFails, notLaunched) ==
    LET running == get_running_processes(procTable, listingFails)
        closed == ClosedFrom(1, running)
        images == {closed[i] : i \in 1..Len(closed)}
    IN /\ requests' = RestartRequests(closed)
       /\ snapshot' = running
       /\ tableBefore' = procTable
       /\ procTable' = (procTable \ images) \cup Relaunched(closed, notLaunched)
       /\ raisedFor' = notLaunched \cap images
       /\ listing' = Listing("restart_browsers",
                             IF listingFails THEN "failed" ELSE "listed")
       /\ UNCHANGED <<appsArg, attempts, killed>>

\* ------------------------------------------------------------------------
\* Daemon lock file and the `daemon` command (blocker.py)
\* ------------------------------------------------------------------------
\* The `daemon` commands; each runs in a process whose pid is its number.
Daemons == 1..NumDaemons

\* The pid of a process that ended before any command started.
StalePid == NumDaemons + 1

NoLockFile == "<no lock file>"

\* A lock file whose text is no number.
Garbage == "garbage"

NoPid == 0 - 1

\* int(f.read().strip()): the number the text spells, NoPid (ValueError)
\* when it spells none.
ParsePid(text) ==
    IF \E p \in 1..StalePid : Str(p) = text
    THEN CHOOSE p \in 1..StalePid : Str(p) = text
    ELSE NoPid

\* Mutant of write_lock_file: the file is opened and left empty.
write_lock_file_empty(pid) == ""

\* write_lock_file(): the text of the lock file, str(os.getpid())
write_lock_file(pid) == Str(pid)

\* os.remove(LOCK_FILE): raises OSError when the file is missing
os_remove(file) == [file |-> NoLockFile, raised |-> file = NoLockFile]

\* Mutant of remove_lock_file: the OSError is not caught.
remove_lock_file_uncaught(file) == os_remove(file)

\* remove_lock_file(): os.remove under "except OSError: pass"
remove_lock_file(file) == [file |-> os_remove(file).file, raised |-> FALSE]

\* Mutant of IsRunning: the pid is taken to be running without a look at
\* tasklist's output.
IsRunningUnchecked(pid, procs) == TRUE

\* get_daemon_pid's liveness test: str(pid) in the output of
\* tasklist /FI "PID eq <pid>"
IsRunning(pid, procs) == pid \in procs

\* Mutant of TaskkillPid: the process is asked to close and stays.
TaskkillPidIgnored(procs, pid) == procs

\* taskkill /F /PID pid: the process table afterwards
TaskkillPid(procs, pid) == procs \ {pid}

\* A log entry: what was done, to which pid, and a note: for a "found"
\* entry whether that pid was in the process table, else the text of the
\* lock file after the step.
Event(ev, pid, note) == [ev |-> ev, pid |-> pid, note |-> note]

Logged(d, e) == log' = [log EXCEPT ![d] = Append(@, e)]

Goto(d, label) == pc' = [pc EXCEPT ![d] = label]

InStop(d) == pc[d] \in {"s_read", "s_check", "s_stale"}

\* The lock protocol touches neither the hosts file, the policy store nor
\* the process images.
DaemonFrame ==
    UNCHANGED <<hostsVars, policyVars, appVars, loopVars, configVars, surface, stopPc, stopPid>>

\* main, command "daemon": the process starts and calls get_daemon_pid().
DStart(d) ==
    /\ DaemonFrame
    /\ pc[d] = "idle"
    /\ alive' = alive \cup {d}
    /\ Goto(d, "m_read")
    /\ UNCHANGED <<lock, pidRead, log, tray>>

\* get_daemon_pid: os.path.exists, then open/read/int.  Without a file the
\* result is None: main goes on to write_lock_file, stop_daemon returns
\* False and main goes on likewise.  Text that is no number raises, and the
\* handler removes the lock file.
DRead(d) ==
    /\ DaemonFrame
    /\ pc[d] \in {"m_read", "s_read"}
    /\ IF lock = NoLockFile
       THEN /\ Goto(d, "write")
            /\ UNCHANGED <<pidRead, log>>
       ELSE IF ParsePid(lock) = NoPid
       THEN /\ Goto(d, IF InStop(d) THEN "s_stale" ELSE "m_stale")
            /\ UNCHANGED <<pidRead, log>>
       ELSE /\ Goto(d, IF InStop(d) THEN "s_check" ELSE "m_check")
            /\ pidRead' = [pidRead EXCEPT ![d] = ParsePid(lock)]
            /\ UNCHANGED log
    /\ UNCHANGED <<lock, alive, tray>>

\* get_daemon_pid: the tasklist query for the pid read.  A running pid is
\* returned: main calls stop_daemon(), stop_daemon goes on to taskkill.
\* The log keeps whether the pid was in the process table at that moment.
DCheck(d) ==
    /\ DaemonFrame
    /\ pc[d] \in {"m_check", "s_check"}
    /\ Logged(d, Event(IF InStop(d) THEN "s_found" ELSE "m_found", pidRead[d],
                       IF pidRead[d] \in alive THEN "live" ELSE "absent"))
    /\ IF IsRunning(pidRead[d], alive)
       THEN Goto(d, IF InStop(d) THEN "s_kill" ELSE "s_read")
       ELSE Goto(d, IF InStop(d) THEN "s_stale" ELSE "m_stale")
    /\ UNCHANGED <<lock, alive, pidRead, tray>>

\* get_daemon_pid: "Stale lock file": remove_lock_file(), return None.
DStale(d) ==
    /\ DaemonFrame
    /\ pc[d] \in {"m_stale", "s_stale"}
    /\ lock' = remove_lock_file(lock).file
    /\ Logged(d, Event("discard", NoPid, lock'))
    /\ Goto(d, "write")
    /\ UNCHANGED <<alive, pidRead, tray>>

\* stop_daemon: taskkill /F /PID pid.  The process of that pid, if it is
\* running, ends where it stands (also when it is the caller itself).
DKill(d) ==
    /\ DaemonFrame
    /\ pc[d] = "s_kill"
    /\ alive' = TaskkillPid(alive, pidRead[d])
    /\ pc' = [e \in Daemons |->
                IF e \in alive /\ e \notin alive' THEN "dead"
                ELSE IF e = d THEN "s_remove" ELSE pc[e]]
    /\ Logged(d, Event("kill", pidRead[d], lock))
    /\ UNCHANGED <<lock, pidRead, tray>>

\* stop_daemon: remove_lock_file() after the taskkill call.
DRemove(d) ==
    /\ DaemonFrame
    /\ pc[d] = "s_remove"
    /\ lock' = remove_lock_file(lock).file
    /\ Logged(d, Event("remove", NoPid, lock'))
    /\ Goto(d, "write")
    /\ UNCHANGED <<alive, pidRead, tray>>

\* main: write_lock_file(), then the loop begins.
DWrite(d) ==
    /\ DaemonFrame
    /\ pc[d] = "write"
    /\ lock' = write_lock_file(d)
    /\ Logged(d, Event("write", d, lock'))
    /\ Goto(d, "tick")
    /\ UNCHANGED <<alive, pidRead, tray>>

\* One pass of "while True": the enforcement calls, then time.sleep(30).
DTick(d) ==
    /\ DaemonFrame
    /\ pc[d] = "tick"
    /\ Goto(d, "sleep")
    /\ UNCHANGED <<lock, alive, pidRead, log, tray>>

DSleep(d) ==
    /\ DaemonFrame
    /\ pc[d] = "sleep"
    /\ Goto(d, "tick")
    /\ UNCHANGED <<lock, alive, pidRead, log, tray>>

\* KeyboardInterrupt in the loop: "except KeyboardInterrupt".
DInterrupt(d) ==
    /\ DaemonFrame
    /\ pc[d] \in {"tick", "sleep"}
    /\ Goto(d, "finally_i")
    /\ UNCHANGED <<lock, alive, pidRead, log, tray>>

\* Any other exception that leaves the loop (raised outside the inner try
\* or by its handler, or no Exception, such as SystemExit).
DEscape(d) ==
    /\ DaemonFrame
    /\ pc[d] \in {"tick", "sleep"}
    /\ Goto(d, "finally_e")
    /\ UNCHANGED <<lock, alive, pidRead, log, tray>>

\* "finally: remove_lock_file()", then main returns ("done") or the
\* exception goes on ("crashed"); the process ends.
DFinally(d) ==
    /\ DaemonFrame
    /\ pc[d] \in {"finally_i", "finally_e"}
    /\ lock' = remove_lock_file(lock).file
    /\ Logged(d, Event(IF remove_lock_file(lock).raised THEN "release_raised"
                       ELSE IF lock = NoLockFile THEN "release_missing"
                       ELSE "release", NoPid, lock'))
    /\ Goto(d, IF pc[d] = "finally_e" \/ remove_lock_file(lock).raised
               THEN "crashed" ELSE "done")
    /\ alive' = alive \ {d}
    /\ UNCHANGED <<pidRead, tray>>

\* TrayBlocker.start_daemon: the tray's loop thread starts; it reads and
\* writes no lock file.
TrayStart ==
    /\ DaemonFrame
    /\ tray = "off"
    /\ tray' = "loop"
    /\ UNCHANGED <<lock, alive, pc, pidRead, log>>

\* quit_app / quit_and_unblock: daemon_running = False ends the loop.
TrayQuit ==
    /\ DaemonFrame
    /\ tray = "loop"
    /\ tray' = "quit"
    /\ UNCHANGED <<lock, alive, pc, pidRead, log>>

\* ------------------------------------------------------------------------
\* The `stop` command (blocker.py main, stop_daemon)
\* ------------------------------------------------------------------------
\* The `stop` command touches the lock file and the process table only.
StopFrame ==
    UNCHANGED <<hostsVars, policyVars, appVars, loopVars, configVars, surface, pidRead, log, tray>>

\* main, command "stop": the process starts and calls stop_daemon(), which
\* calls get_daemon_pid().
StopStart ==
    /\ StopFrame
    /\ surface = "stop"
    /\ stopPc = "idle"
    /\ stopPc' = "s_read"
    /\ UNCHANGED <<lock, alive, pc, stopPid>>

\* get_daemon_pid: os.path.exists, then open/read/int.  Without a file
\* stop_daemon prints "No daemon is currently running." and returns False.
StopRead ==
    /\ StopFrame
    /\ stopPc = "s_read"
    /\ IF lock = NoLockFile
       THEN stopPc' = "done" /\ stopPid' = stopPid
       ELSE IF ParsePid(lock) = NoPid
       THEN stopPc' = "s_stale" /\ stopPid' = stopPid
       ELSE stopPc' = "s_check" /\ stopPid' = ParsePid(lock)
    /\ UNCHANGED <<lock, alive, pc>>

\* get_daemon_pid: the tasklist query for the pid read.
StopCheck ==
    /\ StopFrame
    /\ stopPc = "s_check"
    /\ stopPc' = IF IsRunning(stopPid, alive) THEN "s_kill" ELSE "s_stale"
    /\ UNCHANGED <<lock, alive, pc, stopPid>>

\* get_daemon_pid: stale or unreadable lock: remove_lock_file(), return
\* None; stop_daemon returns False.
StopStale ==
    /\ StopFrame
    /\ stopPc = "s_stale"
    /\ lock' = remove_lock_file(lock).file
    /\ stopPc' = "done"
    /\ UNCHANGED <<alive, pc, stopPid>>

\* stop_daemon: taskkill /F /PID pid; the process of that pid, if it is
\* running, ends where it stands.
StopKill ==
    /\ StopFrame
    /\ stopPc = "s_kill"
    /\ alive' = TaskkillPid(alive, stopPid)
    /\ pc' = [e \in Daemons |-> IF e \in alive /\ e \notin alive' THEN "dead" ELSE pc[e]]
    /\ stopPc' = "s_remove"
    /\ UNCHANGED <<lock, stopPid>>

\* stop_daemon: remove_lock_file() after the taskkill call, return True.
StopRemove ==
    /\ StopFrame
    /\ stopPc = "s_remove"
    /\ lock' = remove_lock_file(lock).file
    /\ stopPc' = "done"
    /\ UNCHANGED <<alive, pc, stopPid>>

DaemonIdle ==
    /\ lock = NoLockFile
    /\ alive = {}
    /\ pc = [d \in Daemons |-> "idle"]
    /\ pidRead = [d \in Daemons |-> NoPid]
    /\ log = [d \in Daemons |-> <<>>]
    /\ tray = "off"
    /\ stopPc = "idle"
    /\ stopPid = NoPid

\* Before any command starts the lock file is missing or was left behind:
\* by a daemon that was ended by force (its pid is gone, or is by now the
\* pid of one of the commands to come), or with text that is no number.
InitDaemonVars ==
    /\ lock \in {NoLockFile, Garbage} \cup {Str(p) : p \in 1..StalePid}
    /\ alive = {}
    /\ pc = [d \in Daemons |-> "idle"]
    /\ pidRead = [d \in Daemons |-> NoPid]
    /\ log = [d \in Daemons |-> <<>>]
    /\ tray = "off"
    /\ stopPc = "idle"
    /\ stopPid = NoPid

\* ------------------------------------------------------------------------
\* The enforcement loops and the `block` command (blocker.py main,
\* tray_blocker.py _daemon_loop), one step per call
\* ------------------------------------------------------------------------
\* "daemon": the loop of the `daemon` command; "tray": the tray's loop
\* thread; "block": the one-shot `block` command.
Procs == {"daemon", "tray", "block"}
LoopProcs == {"daemon", "tray"}

\* The calls of a tick, in the order of the code.
TickCalls ==
    <<"load_config", "block_sites", "load_blocked_urls", "apply_url_blocks",
      "load_blocked_apps", "kill_blocked_apps">>

Calls == {TickCalls[i] : i \in 1..Len(TickCalls)} \cup {"restart_browsers"}

\* The blocked_sites the config holds, and the hosts files the loops start on.
LoopSites == <<"x.com">>
LoopHosts == {NoFile, <<"10.0.0.1 a.lan", "">>}

\* Where a process of a tick is while it runs one (not asleep, not ended).
InTick(p) ==
    lpc[p] \in Calls \cup {"if_blocking", "if_apps", "open_w", "write", "except"}

\* Mutant of AfterKill: the loops go on to restart_browsers as `block` does.
AfterKillRestart(p) == "restart_browsers"

\* The statement after kill_blocked_apps: time.sleep(30) in the loops,
\* restart_browsers() in the `block` command.
AfterKill(p) == IF p \in LoopProcs THEN "sleep" ELSE "restart_browsers"

\* The statement that follows the statement at label l of process p.
After(p, l) ==
    CASE l = "load_config" -> "block_sites"
      [] l = "block_sites" -> "open_w"
      [] l = "open_w" -> "write"
      [] l = "write" -> "load_blocked_urls"
      [] l = "load_blocked_urls" -> "apply_url_blocks"
      [] l = "apply_url_blocks" ->
            IF p = "tray" THEN "if_apps" ELSE "load_blocked_apps"
      [] l = "load_blocked_apps" -> "kill_blocked_apps"
      [] l = "kill_blocked_apps" -> AfterKill(p)
      [] l = "restart_browsers" -> "done"
      [] l = "except" -> "sleep"
      [] l = "sleep" -> IF p = "tray" THEN "while" ELSE "load_config"

\* Mutant of Handler: the loops' try has no `except Exception`.
HandlerMissing(p) == "crashed"

\* Where an Exception raised by a call of process p lands: the loops'
\* `except Exception` clause; the `block` command has none and ends.
Handler(p) == IF p \in LoopProcs THEN "except" ELSE "crashed"

LGoto(p, l) == lpc' = [lpc EXCEPT ![p] = l]
LCalled(p, c) == calls' = [calls EXCEPT ![p] = Append(@, c)]
LoopFrame == UNCHANGED <<hostsBefore, hostsBefore2, lastOp, prevOp, hostsWas,
                         hostsDenied, hostsRaised, policyVars,
                         appVars, daemonVars, configVars, surface, uiPc, uiRead>>

\* The processes a run follows: both loops side by side, one loop alone,
\* or the `block` command alone.
Running ==
    CASE surface = "loop" -> LoopProcs
      [] surface = "daemon loop" -> {"daemon"}
      [] surface = "tray loop" -> {"tray"}
      [] surface = "tray menu" -> {"tray"}
      [] surface = "block" -> {"block"}
      [] OTHER -> {}

\* The process starts: the `daemon` command has written its lock and enters
\* `while True`; TrayBlocker.start_daemon sets daemon_running and starts the
\* thread; the `block` command begins.
LStart(p) ==
    /\ LoopFrame
    /\ lpc[p] = "idle"
    /\ p \in Running
    /\ LGoto(p, IF p = "tray" THEN "while" ELSE "load_config")
    /\ daemon_running' = IF p = "tray" THEN TRUE ELSE daemon_running
    /\ UNCHANGED <<lastTick, hosts, calls, contentRead, exitAt, sawPartial, is_blocking,
                   app_blocking_enabled>>

\* while self.daemon_running:
LWhile ==
    /\ LoopFrame
    /\ lpc["tray"] = "while"
    /\ LGoto("tray", IF daemon_running THEN "if_blocking" ELSE "returned")
    /\ exitAt' = IF daemon_running THEN exitAt
                 ELSE [exitAt EXCEPT !["tray"] = "while"]
    /\ UNCHANGED <<lastTick, hosts, calls, contentRead, sawPartial, daemon_running,
                   is_blocking, app_blocking_enabled>>

\* if self.is_blocking: / if self.app_blocking_enabled:
LIf ==
    /\ LoopFrame
    /\ lpc["tray"] \in {"if_blocking", "if_apps"}
    /\ LGoto("tray",
             IF lpc["tray"] = "if_blocking"
             THEN (IF is_blocking THEN "load_config" ELSE "if_apps")
             ELSE (IF app_blocking_enabled THEN "load_blocked_apps" ELSE "sleep"))
    /\ lastTick' = IF lpc["tray"] = "if_apps" /\ ~app_blocking_enabled
                   THEN [lastTick EXCEPT !["tray"] = "ok"] ELSE lastTick
    /\ UNCHANGED <<hosts, calls, contentRead, exitAt, sawPartial, daemon_running,
                   is_blocking, app_blocking_enabled>>

\* A call other than block_sites is made and returns.
LCall(p) ==
    /\ LoopFrame
    /\ lpc[p] \in Calls \ {"block_sites"}
    /\ LCalled(p, lpc[p])
    /\ LGoto(p, After(p, lpc[p]))
    /\ lastTick' = IF After(p, lpc[p]) = "sleep"
                   THEN [lastTick EXCEPT ![p] = "ok"] ELSE lastTick
    /\ UNCHANGED <<hosts, contentRead, exitAt, sawPartial, daemon_running,
                   is_blocking, app_blocking_enabled>>

\* A call is made and raises an Exception (unreadable config, access
\* denied, a tool that cannot be started).
LRaise(p) ==
    /\ LoopFrame
    /\ lpc[p] \in Calls
    /\ LCalled(p, lpc[p])
    /\ LGoto(p, Handler(p))
    /\ UNCHANGED <<lastTick, hosts, contentRead, exitAt, sawPartial, daemon_running,
                   is_blocking, app_blocking_enabled>>

\* block_sites: content = read_hosts(); the rest is computed without
\* touching the file.
LRead(p) ==
    /\ LoopFrame
    /\ lpc[p] = "block_sites"
    /\ LCalled(p, "block_sites")
    /\ contentRead' = [contentRead EXCEPT ![p] = read_hosts(hosts)]
    /\ sawPartial' = [sawPartial EXCEPT ![p] =
                          \E q \in Procs \ {p} : lpc[q] = "write"]
    /\ LGoto(p, "open_w")
    /\ UNCHANGED <<lastTick, hosts, exitAt, daemon_running, is_blocking,
                   app_blocking_enabled>>

\* block_sites: open(HOSTS_PATH, "w") creates the file or cuts it to length 0.
LOpen(p) ==
    /\ LoopFrame
    /\ lpc[p] = "open_w"
    /\ hosts' = <<"">>
    /\ LGoto(p, "write")
    /\ UNCHANGED <<lastTick, calls, contentRead, exitAt, sawPartial, daemon_running,
                   is_blocking, app_blocking_enabled>>

\* block_sites: f.write(new_content) and the close that ends the with block.
LWrite(p) ==
    /\ LoopFrame
    /\ lpc[p] = "write"
    /\ hosts' = BlockContent(contentRead[p], LoopSites)
    /\ LGoto(p, After(p, "write"))
    /\ contentRead' = [contentRead EXCEPT ![p] = <<"">>]
    /\ UNCHANGED <<lastTick, calls, exitAt, sawPartial, daemon_running,
                   is_blocking, app_blocking_enabled>>

\* except Exception: print(...) / pass
LExcept(p) ==
    /\ LoopFrame
    /\ lpc[p] = "except"
    /\ LGoto(p, After(p, "except"))
    /\ lastTick' = [lastTick EXCEPT ![p] = "failed"]
    /\ UNCHANGED <<hosts, calls, contentRead, exitAt, sawPartial, daemon_running,
                   is_blocking, app_blocking_enabled>>

\* time.sleep(30) returns; the next tick begins with an empty call record.
LSleep(p) ==
    /\ LoopFrame
    /\ lpc[p] = "sleep"
    /\ LGoto(p, After(p, "sleep"))
    /\ calls' = [calls EXCEPT ![p] = <<>>]
    /\ sawPartial' = [sawPartial EXCEPT ![p] = FALSE]
    /\ UNCHANGED <<lastTick, hosts, contentRead, exitAt, daemon_running, is_blocking,
                   app_blocking_enabled>>

\* Ctrl+C: Python raises KeyboardInterrupt in the `daemon` command between
\* any two bytecodes; it is no Exception, so it passes the inner handler,
\* reaches `except KeyboardInterrupt`, and the command returns after the
\* finally clause.  A with block it leaves closes the file as it is.
LKeyboardInterrupt ==
    /\ LoopFrame
    /\ InTick("daemon") \/ lpc["daemon"] = "sleep"
    /\ LGoto("daemon", "returned")
    /\ exitAt' = [exitAt EXCEPT !["daemon"] = lpc["daemon"]]
    /\ UNCHANGED <<lastTick, hosts, calls, contentRead, sawPartial, daemon_running,
                   is_blocking, app_blocking_enabled>>

\* quit_app: self.daemon_running = False
LQuitApp ==
    /\ LoopFrame
    /\ lpc["tray"] # "idle" /\ daemon_running
    /\ daemon_running' = FALSE
    /\ UNCHANGED <<lastTick, hosts, lpc, calls, contentRead, exitAt, sawPartial, is_blocking,
                   app_blocking_enabled>>

\* quit_app: icon.stop() lets icon.run() and the program return; the loop
\* thread was created with daemon=True and ends with the process, wherever
\* it stands.
LTrayExit ==
    /\ LoopFrame
    /\ ~daemon_running
    /\ InTick("tray") \/ lpc["tray"] \in {"while", "sleep"}
    /\ LGoto("tray", "killed")
    /\ exitAt' = [exitAt EXCEPT !["tray"] = lpc["tray"]]
    /\ UNCHANGED <<lastTick, hosts, calls, contentRead, sawPartial, daemon_running,
                   is_blocking, app_blocking_enabled>>

\* toggle_app_blocking
LToggleApps ==
    /\ LoopFrame
    /\ lpc["tray"] \notin {"idle", "returned", "killed"}
    /\ app_blocking_enabled' = ~app_blocking_enabled
    /\ UNCHANGED <<lastTick, hosts, lpc, calls, contentRead, exitAt, sawPartial,
                   daemon_running, is_blocking>>

\* TrayBlocker.__init__ and run() up to start_daemon: is_blocking is True
\* when the loop thread starts, app_blocking_enabled is True.
LoopIdle ==
    /\ lpc = [p \in Procs |-> "idle"]
    /\ calls = [p \in Procs |-> <<>>]
    /\ contentRead = [p \in Procs |-> <<"">>]
    /\ exitAt = [p \in Procs |-> "none"]
    /\ sawPartial = [p \in Procs |-> FALSE]
    /\ lastTick = [p \in Procs |-> "none"]
    /\ daemon_running = FALSE
    /\ is_blocking = TRUE
    /\ app_blocking_enabled = TRUE
    /\ uiPc = "menu"
    /\ uiRead = <<"">>

\* ------------------------------------------------------------------------
\* The tray's menu handlers (tray_blocker.py toggle_blocking,
\* quit_and_unblock), run by the thread of icon.run() beside the loop thread
\* ------------------------------------------------------------------------
\* The handlers touch the hosts file and the TrayBlocker fields only; the
\* loop thread goes on where it stands.
MenuFrame == UNCHANGED <<hostsBefore, hostsBefore2, lastOp, prevOp, hostsWas,
                         hostsDenied, hostsRaised, policyVars, appVars,
                         daemonVars, configVars, surface, calls, contentRead, sawPartial,
                         lastTick, app_blocking_enabled>>

\* toggle_blocking: "if self.is_blocking" chooses unblock_sites() or
\* load_config() and block_sites(sites).
ToggleTarget(blocking) == IF blocking THEN "u_read" ELSE "b_read"

\* The menu item "Disable/Enable Site Blocking" is clicked.
UToggle ==
    /\ MenuFrame
    /\ surface = "tray menu" /\ lpc["tray"] # "idle"
    /\ uiPc = "menu"
    /\ uiPc' = ToggleTarget(is_blocking)
    /\ UNCHANGED <<hosts, lpc, exitAt, daemon_running, is_blocking, uiRead>>

\* "Quit & Unblock All" is clicked: self.daemon_running = False, then
\* unblock_sites().
UQuitUnblock ==
    /\ MenuFrame
    /\ surface = "tray menu" /\ lpc["tray"] # "idle"
    /\ uiPc = "menu"
    /\ daemon_running' = FALSE
    /\ uiPc' = "q_read"
    /\ UNCHANGED <<hosts, lpc, exitAt, is_blocking, uiRead>>

\* unblock_sites / block_sites: content = read_hosts()
URead ==
    /\ MenuFrame
    /\ uiPc \in {"u_read", "b_read", "q_read"}
    /\ uiRead' = read_hosts(hosts)
    /\ uiPc' = CASE uiPc = "u_read" -> "u_open"
                  [] uiPc = "b_read" -> "b_open"
                  [] uiPc = "q_read" -> "q_open"
    /\ UNCHANGED <<hosts, lpc, exitAt, daemon_running, is_blocking>>

\* open(HOSTS_PATH, "w")
UOpen ==
    /\ MenuFrame
    /\ uiPc \in {"u_open", "b_open", "q_open"}
    /\ hosts' = <<"">>
    /\ uiPc' = CASE uiPc = "u_open" -> "u_write"
                  [] uiPc = "b_open" -> "b_write"
                  [] uiPc = "q_open" -> "q_write"
    /\ UNCHANGED <<lpc, exitAt, daemon_running, is_blocking, uiRead>>

\* f.write(new_content): the content without its region (unblock_sites) or
\* with the region of the config's list (block_sites).
UWrite ==
    /\ MenuFrame
    /\ uiPc \in {"u_write", "b_write", "q_write"}
    /\ hosts' = IF uiPc = "b_write" THEN BlockContent(uiRead, LoopSites)
                ELSE remove_blocker_entries(uiRead)
    /\ uiRead' = <<"">>
    /\ uiPc' = CASE uiPc = "u_write" -> "u_flag"
                  [] uiPc = "b_write" -> "b_flag"
                  [] uiPc = "q_write" -> "q_stop"
    /\ UNCHANGED <<lpc, exitAt, daemon_running, is_blocking>>

\* toggle_blocking: remove_url_blocks() / apply_url_blocks(urls) has
\* returned; self.is_blocking = False / True, and the handler returns.
UFlag ==
    /\ MenuFrame
    /\ uiPc \in {"u_flag", "b_flag"}
    /\ is_blocking' = (uiPc = "b_flag")
    /\ uiPc' = "menu"
    /\ UNCHANGED <<hosts, lpc, exitAt, daemon_running, uiRead>>

\* quit_and_unblock: remove_url_blocks() has returned; icon.stop()
UStop ==
    /\ MenuFrame
    /\ uiPc = "q_stop"
    /\ uiPc' = "stopped"
    /\ UNCHANGED <<hosts, lpc, exitAt, daemon_running, is_blocking, uiRead>>

\* icon.run() and the program return; the loop thread (daemon=True) ends
\* with the process, wherever it stands.
UExit ==
    /\ MenuFrame
    /\ uiPc = "stopped"
    /\ uiPc' = "exited"
    /\ lpc' = [lpc EXCEPT !["tray"] = IF @ = "returned" THEN @ ELSE "killed"]
    /\ exitAt' = [exitAt EXCEPT !["tray"] =
                      IF lpc["tray"] = "returned" THEN @ ELSE lpc["tray"]]
    /\ UNCHANGED <<hosts, daemon_running, is_blocking, uiRead>>

\* ------------------------------------------------------------------------
\* The config file (blocker.py load_full_config, save_config,
\* save_blocked_urls)
\* ------------------------------------------------------------------------
\* The lists of a config that no command of a run reads or writes.
ConfigIdle ==
    /\ blocked_sites = <<>>
    /\ blocked_urls = <<>>

\* A list without a repeated entry.
NoDuplicate(list) == \A i, j \in 1..Len(list) : list[i] = list[j] => i = j

\* x in list
In(x, list) == \E i \in 1..Len(list) : list[i] = x

\* [u for u in list if u not in to_remove]
RECURSIVE Without(_, _)
Without(list, to_remove) ==
    IF list = <<>> THEN <<>>
    ELSE IF list[1] \in to_remove THEN Without(Tail(list), to_remove)
    ELSE <<list[1]>> \o Without(Tail(list), to_remove)

\* ------------------------------------------------------------------------
\* The `addurl` and `removeurl` commands (blocker.py main)
\* ------------------------------------------------------------------------
\* The patterns given on the command line: a path, the same path with a
\* trailing slash, its wildcard form, and a prefix pattern.
UrlArgs == {"y.com/a", "y.com/a/", "y.com/a/*", "z.org/b*"}

\* url_pattern.endswith("/*"), url_pattern.endswith("*")
EndsWithSlashStar(u) == u = "y.com/a/*"
EndsWithStar(u) == u \in {"y.com/a/*", "z.org/b*"}

\* url_pattern.rstrip("/")
RStripSlash(u) == IF u = "y.com/a/" THEN "y.com/a" ELSE u

\* The blocked_urls lists of a config, as the commands leave them.
UrlConfigs == {u \in SeqsUpTo(UrlArgs, MaxUrls) : NoDuplicate(u)}

\* addurl: the list after the appends (unchanged when the pattern is in it).
AddUrl(urls, url_pattern) ==
    IF In(url_pattern, urls) THEN urls
    ELSE LET with == Append(urls, url_pattern)
             wildcard == RStripSlash(url_pattern) \o "/*" IN
         IF ~EndsWithSlashStar(url_pattern) /\ ~EndsWithStar(url_pattern)
            /\ ~In(wildcard, with)
         THEN Append(with, wildcard)
         ELSE with

\* removeurl: new_urls, the list without the pattern and its wildcard form.
RemoveUrl(urls, url_pattern) ==
    LET to_remove == {url_pattern} \cup
                     (IF EndsWithSlashStar(url_pattern) THEN {}
                      ELSE {RStripSlash(url_pattern) \o "/*"}) IN
    Without(urls, to_remove)

\* main, command "addurl": load_blocked_urls, the appends,
\* save_blocked_urls (when the list changed), apply_url_blocks(urls).
addurl(url_pattern) ==
    LET urls == AddUrl(blocked_urls, url_pattern) IN
    /\ Len(urls) <= MaxUrls
    /\ blocked_urls' = urls
    /\ apply_url_blocks(urls, NoFailures)
    /\ UNCHANGED <<hostsVars, appVars, daemonVars, loopVars, blocked_sites, surface>>

\* main, command "removeurl": load_blocked_urls, new_urls,
\* save_blocked_urls (when the list got shorter), apply_url_blocks(new_urls).
removeurl(url_pattern) ==
    LET new_urls == RemoveUrl(blocked_urls, url_pattern) IN
    /\ blocked_urls' = new_urls
    /\ apply_url_blocks(new_urls, NoFailures)
    /\ UNCHANGED <<hostsVars, appVars, daemonVars, loopVars, blocked_sites, surface>>

\* ------------------------------------------------------------------------
\* The `add` and `remove` commands (blocker.py main)
\* ------------------------------------------------------------------------
\* The websites given on the command line.
SiteArgs == {"x.com", "www.x.com", "X.com", "y.org"}

\* sys.argv[2].lower()
LowerSite(arg) == IF arg = "X.com" THEN "x.com" ELSE arg

\* site.startswith("www.")
StartsWithWww(site) == site \in {"www.x.com", "www.y.org"}

\* site[4:] of a site that starts with "www."
DropWww(site) ==
    CASE site = "www.x.com" -> "x.com"
      [] site = "www.y.org" -> "y.org"

\* The blocked_sites lists of a config, as the commands leave them.
SiteConfigs ==
    {c \in SeqsUpTo({"x.com", "www.x.com", "y.org", "www.y.org"}, MaxSites) :
        NoDuplicate(c)}

\* sites.remove(x): the list without the first x
RECURSIVE ListRemove(_, _)
ListRemove(list, x) ==
    IF list = <<>> THEN <<>>
    ELSE IF list[1] = x THEN Tail(list)
    ELSE <<list[1]>> \o ListRemove(Tail(list), x)

\* Mutant of AddSite: the site and its www form are appended without a
\* look at the list.
AddSiteUnchecked(sites, site) ==
    IF StartsWithWww(site) THEN Append(sites, site)
    ELSE Append(Append(sites, site), "www." \o site)

\* add: the list after the appends (unchanged when the site is in it).
AddSite(sites, site) ==
    IF In(site, sites) THEN sites
    ELSE LET with == Append(sites, site)
             www_site == "www." \o site IN
         IF ~StartsWithWww(site) /\ ~In(www_site, with)
         THEN Append(with, www_site)
         ELSE with

\* remove: the list without the site and without its www / bare form.
RemoveSite(sites, site) ==
    LET first == IF In(site, sites) THEN ListRemove(sites, site) ELSE sites
        www_site == IF ~StartsWithWww(site) THEN "www." \o site ELSE DropWww(site) IN
    IF In(www_site, first) THEN ListRemove(first, www_site) ELSE first

\* main, command "add": load_config, the appends, save_config (when the
\* list changed), block_sites(sites).
add(arg) ==
    LET sites == AddSite(blocked_sites, LowerSite(arg)) IN
    /\ Len(sites) <= MaxSites
    /\ blocked_sites' = sites
    /\ block_sites(sites)
    /\ UNCHANGED <<policyVars, appVars, daemonVars, loopVars, blocked_urls, surface>>

\* main, command "remove": load_config, the removals, save_config (when
\* one was made), block_sites(sites).
remove(arg) ==
    LET sites == RemoveSite(blocked_sites, LowerSite(arg)) IN
    /\ blocked_sites' = sites
    /\ block_sites(sites)
    /\ UNCHANGED <<policyVars, appVars, daemonVars, loopVars, blocked_urls, surface>>

\* ------------------------------------------------------------------------
\* Specifications
\* ------------------------------------------------------------------------
InitHosts == surface = "hosts" /\ InitHostsVars /\ PolicyIdle /\ AppsIdle /\ DaemonIdle /\ LoopIdle /\ ConfigIdle

HostsBlock ==
    \E sites \in SiteLists : block_sites(sites) /\ UNCHANGED <<policyVars, appVars, daemonVars, loopVars, configVars, surface>>

HostsUnblock == unblock_sites /\ UNCHANGED <<policyVars, appVars, daemonVars, loopVars, configVars, surface>>

NextHosts == HostsBlock \/ HostsUnblock

SpecHosts == InitHosts /\ [][NextHosts]_vars

\* One hosts operation on every initial content, with reading or writing
\* the file denied or not.
InitHostsDenied ==
    /\ surface = "hosts denied" /\ InitHostsVars
    /\ PolicyIdle /\ AppsIdle /\ DaemonIdle /\ LoopIdle /\ ConfigIdle

DeniedBlock ==
    \E sites \in SiteLists, denied \in {"none", "read", "write"} :
        /\ lastOp = NoOp
        /\ block_sites_under(sites, denied)
        /\ UNCHANGED <<policyVars, appVars, daemonVars, loopVars, configVars, surface>>

DeniedUnblock ==
    \E denied \in {"none", "read", "write"} :
        /\ lastOp = NoOp
        /\ unblock_sites_under(denied)
        /\ UNCHANGED <<policyVars, appVars, daemonVars, loopVars, configVars, surface>>

NextHostsDenied == DeniedBlock \/ DeniedUnblock

SpecHostsDenied == InitHostsDenied /\ [][NextHostsDenied]_vars

InitPolicy == surface = "policy" /\ InitPolicyVars /\ HostsIdle /\ AppsIdle /\ DaemonIdle /\ LoopIdle /\ ConfigIdle

PolicyApply ==
    \E urls \in UrlLists :
        apply_url_blocks(urls, NoFailures) /\ UNCHANGED <<hostsVars, appVars, daemonVars, loopVars, configVars, surface>>

PolicyRemove == remove_url_blocks(NoFailures) /\ UNCHANGED <<hostsVars, appVars, daemonVars, loopVars, configVars, surface>>

NextPolicy == PolicyApply \/ PolicyRemove

SpecPolicy == InitPolicy /\ [][NextPolicy]_vars

\* One policy operation on every prior content, under every failure case.
InitPolicyFaults ==
    /\ surface = "policy faults"
    /\ HostsIdle /\ AppsIdle /\ DaemonIdle /\ LoopIdle /\ ConfigIdle
    /\ registry \in [Locations -> FaultPriorKeys]
    /\ regBefore = [loc \in Locations |-> NoKey]
    /\ lastUrlOp = NoUrlOp
    /\ prevUrlOp = NoUrlOp
    /\ urlFails = NoFailures
    /\ urlRaised = FALSE

FaultyApply ==
    \E urls \in UrlLists, fails \in FailureCases :
        /\ lastUrlOp = NoUrlOp
        /\ apply_url_blocks(urls, fails)
        /\ UNCHANGED <<hostsVars, appVars, daemonVars, loopVars, configVars, surface>>

FaultyRemove ==
    \E fails \in FailureCases :
        /\ lastUrlOp = NoUrlOp
        /\ remove_url_blocks(fails)
        /\ UNCHANGED <<hostsVars, appVars, daemonVars, loopVars, configVars, surface>>

NextPolicyFaults == FaultyApply \/ FaultyRemove

SpecPolicyFaults == InitPolicyFaults /\ [][NextPolicyFaults]_vars

InitApps == surface = "apps" /\ InitAppVars /\ HostsIdle /\ PolicyIdle /\ DaemonIdle /\ LoopIdle /\ ConfigIdle

\* kill_blocked_apps on any list, with the process listing working or
\* failing and any of the list's taskkill calls raising.
AppsKill ==
    \E apps \in AppLists, listingFails \in BOOLEAN :
        \E raising \in SUBSET {apps[i] : i \in 1..Len(apps)} :
            /\ kill_blocked_apps(apps, listingFails, raising)
            /\ UNCHANGED <<hostsVars, policyVars, daemonVars, loopVars, configVars, surface>>

NextApps == AppsKill

SpecApps == InitApps /\ [][NextApps]_vars

InitBrowsers ==
    /\ surface = "browsers" /\ HostsIdle /\ PolicyIdle /\ DaemonIdle /\ LoopIdle /\ ConfigIdle
    /\ procTable \in SUBSET (BrowserNames \cup {"A.exe"})
    /\ tableBefore = {}
    /\ appsArg = <<>>
    /\ snapshot = NoSnapshot
    /\ raisedFor = {}
    /\ attempts = <<>>
    /\ killed = 0
    /\ requests = <<>>
    /\ listing = NoListing

\* restart_browsers, with the listing working or failing and any of the
\* relaunches failing.
BrowsersRestart ==
    \E listingFails \in BOOLEAN, notLaunched \in SUBSET BrowserNames :
        /\ restart_browsers(listingFails, notLaunched)
        /\ UNCHANGED <<hostsVars, policyVars, daemonVars, loopVars, configVars, surface>>

\* A browser is started by the user.
BrowsersOpen ==
    \E b \in BrowserNames :
        /\ b \notin procTable
        /\ procTable' = procTable \cup {b}
        /\ UNCHANGED <<tableBefore, appsArg, snapshot, raisedFor, attempts,
                       killed, requests, listing>>
        /\ UNCHANGED <<hostsVars, policyVars, daemonVars, loopVars, configVars, surface>>

NextBrowsers == BrowsersRestart \/ BrowsersOpen

SpecBrowsers == InitBrowsers /\ [][NextBrowsers]_vars

\* A tick of the `daemon` command that nothing interferes with and in which
\* nothing fails, on the lists the config holds when the tick reads them.
\* A run varies the hosts file with the blocked_sites, or the policy store
\* with the blocked_urls.
TickApps == <<"A.exe">>

InitTick ==
    /\ surface \in {"tick hosts", "tick policy"}
    /\ IF surface = "tick hosts"
       THEN InitHostsVars /\ PolicyIdle
       ELSE HostsIdle /\ InitPolicyVars
    /\ AppsIdle /\ DaemonIdle /\ LoopIdle /\ ConfigIdle

DaemonTick ==
    \E sites \in SiteLists, urls \in UrlLists :
        /\ prevOp = NoOp /\ prevUrlOp = NoUrlOp
        /\ surface = "tick hosts" => urls = <<"y.com/a">>
        /\ surface = "tick policy" => sites = <<"x.com">>
        /\ block_sites(sites)
        /\ apply_url_blocks(urls, NoFailures)
        /\ kill_blocked_apps(TickApps, FALSE, {})
        /\ UNCHANGED <<daemonVars, loopVars, configVars, surface>>

\* The `unblock` command: unblock_sites(); remove_url_blocks()
UnblockCommand ==
    /\ prevOp = NoOp /\ prevUrlOp = NoUrlOp
    /\ unblock_sites
    /\ remove_url_blocks(NoFailures)
    /\ UNCHANGED <<appVars, daemonVars, loopVars, configVars, surface>>

NextTick == DaemonTick \/ UnblockCommand

SpecTick == InitTick /\ [][NextTick]_vars

InitDaemon ==
    /\ surface = "daemon" /\ InitDaemonVars
    /\ HostsIdle /\ PolicyIdle /\ AppsIdle /\ LoopIdle /\ ConfigIdle

NextDaemon ==
    \/ \E d \in Daemons : DStart(d)
    \/ \E d \in Daemons : DRead(d)
    \/ \E d \in Daemons : DCheck(d)
    \/ \E d \in Daemons : DStale(d)
    \/ \E d \in Daemons : DKill(d)
    \/ \E d \in Daemons : DRemove(d)
    \/ \E d \in Daemons : DWrite(d)
    \/ \E d \in Daemons : DTick(d)
    \/ \E d \in Daemons : DSleep(d)
    \/ \E d \in Daemons : DInterrupt(d)
    \/ \E d \in Daemons : DEscape(d)
    \/ \E d \in Daemons : DFinally(d)
    \/ TrayStart
    \/ TrayQuit

SpecDaemon == InitDaemon /\ [][NextDaemon]_vars

\* The `daemon` commands together with one `stop` command.
InitStop ==
    /\ surface = "stop" /\ InitDaemonVars
    /\ HostsIdle /\ PolicyIdle /\ AppsIdle /\ LoopIdle /\ ConfigIdle

NextStop ==
    \/ \E d \in Daemons : DStart(d)
    \/ \E d \in Daemons : DRead(d)
    \/ \E d \in Daemons : DCheck(d)
    \/ \E d \in Daemons : DStale(d)
    \/ \E d \in Daemons : DKill(d)
    \/ \E d \in Daemons : DRemove(d)
    \/ \E d \in Daemons : DWrite(d)
    \/ \E d \in Daemons : DTick(d)
    \/ \E d \in Daemons : DSleep(d)
    \/ \E d \in Daemons : DInterrupt(d)
    \/ \E d \in Daemons : DEscape(d)
    \/ \E d \in Daemons : DFinally(d)
    \/ StopStart
    \/ StopRead
    \/ StopCheck
    \/ StopStale
    \/ StopKill
    \/ StopRemove

SpecStop == InitStop /\ [][NextStop]_vars

InitLoop ==
    /\ surface \in {"loop", "block"} /\ LoopIdle /\ ConfigIdle /\ PolicyIdle /\ AppsIdle /\ DaemonIdle
    /\ hosts \in LoopHosts
    /\ hostsBefore = <<"">> /\ hostsBefore2 = <<"">>
    /\ lastOp = NoOp /\ prevOp = NoOp
    /\ hostsWas = NoFile /\ hostsDenied = "none" /\ hostsRaised = "none"

LoopStep(p) ==
    \/ LStart(p)
    \/ LCall(p)
    \/ LRead(p)
    \/ LOpen(p)
    \/ LWrite(p)
    \/ LExcept(p)
    \/ LSleep(p)
    \/ (p = "tray" /\ (LWhile \/ LIf))

NextLoop ==
    \/ \E p \in Procs : LStart(p)
    \/ \E p \in Procs : LCall(p)
    \/ \E p \in Procs : LRaise(p)
    \/ \E p \in Procs : LRead(p)
    \/ \E p \in Procs : LOpen(p)
    \/ \E p \in Procs : LWrite(p)
    \/ \E p \in LoopProcs : LExcept(p)
    \/ \E p \in LoopProcs : LSleep(p)
    \/ LWhile
    \/ LIf
    \/ LKeyboardInterrupt
    \/ LQuitApp
    \/ LTrayExit
    \/ LToggleApps

SpecLoop == InitLoop /\ [][NextLoop]_vars

\* The loops under the scheduling the operating system gives them: a
\* process that can take its next step takes it; calls need not fail and
\* nobody need press Ctrl+C or quit.
InitLoopFair ==
    /\ surface \in {"daemon loop", "tray loop"} /\ LoopIdle /\ ConfigIdle
    /\ PolicyIdle /\ AppsIdle /\ DaemonIdle
    /\ hosts \in LoopHosts
    /\ hostsBefore = <<"">> /\ hostsBefore2 = <<"">>
    /\ lastOp = NoOp /\ prevOp = NoOp
    /\ hostsWas = NoFile /\ hostsDenied = "none" /\ hostsRaised = "none"

SpecLoopFair ==
    InitLoopFair /\ [][NextLoop]_vars /\ \A p \in LoopProcs : WF_vars(LoopStep(p))

\* The tray application after run() has applied the blocks and started the
\* loop thread: the hosts file holds the region, is_blocking is True.
InitTray ==
    /\ surface = "tray menu" /\ LoopIdle /\ ConfigIdle /\ PolicyIdle /\ AppsIdle /\ DaemonIdle
    /\ hosts \in {BlockContent(read_hosts(h), LoopSites) : h \in LoopHosts}
    /\ hostsBefore = <<"">> /\ hostsBefore2 = <<"">>
    /\ lastOp = NoOp /\ prevOp = NoOp
    /\ hostsWas = NoFile /\ hostsDenied = "none" /\ hostsRaised = "none"

NextTray ==
    \/ LStart("tray")
    \/ LWhile
    \/ LIf
    \/ LCall("tray")
    \/ LRead("tray")
    \/ LOpen("tray")
    \/ LWrite("tray")
    \/ LSleep("tray")
    \/ UToggle
    \/ UQuitUnblock
    \/ URead
    \/ UOpen
    \/ UWrite
    \/ UFlag
    \/ UStop
    \/ UExit

SpecTray == InitTray /\ [][NextTray]_vars

\* The policy store as an earlier command left it for the config's list
\* (no key at all before the first pattern was added).
InitUrlCommands ==
    /\ surface = "url commands"
    /\ HostsIdle /\ AppsIdle /\ DaemonIdle /\ LoopIdle
    /\ blocked_sites = <<>>
    /\ blocked_urls \in UrlConfigs
    /\ registry = [loc \in Locations |->
                      IF blocked_urls = <<>> THEN NoKey ELSE Key(Entries(blocked_urls))]
    /\ regBefore = [loc \in Locations |-> NoKey]
    /\ lastUrlOp = NoUrlOp
    /\ prevUrlOp = NoUrlOp
    /\ urlFails = NoFailures
    /\ urlRaised = FALSE

CommandAddUrl == \E url_pattern \in UrlArgs : addurl(url_pattern)

CommandRemoveUrl == \E url_pattern \in UrlArgs : removeurl(url_pattern)

NextUrlCommands == CommandAddUrl \/ CommandRemoveUrl

SpecUrlCommands == InitUrlCommands /\ [][NextUrlCommands]_vars

\* A config without duplicates and a hosts file of at most two lines,
\* whatever they are.
InitSiteCommands ==
    /\ surface = "site commands"
    /\ PolicyIdle /\ AppsIdle /\ DaemonIdle /\ LoopIdle
    /\ blocked_urls = <<>>
    /\ blocked_sites \in SiteConfigs
    /\ hosts \in {NoFile} \cup {h \in HostContents : Len(h) <= 2}
    /\ hostsBefore = <<"">> /\ hostsBefore2 = <<"">>
    /\ lastOp = NoOp /\ prevOp = NoOp
    /\ hostsWas = NoFile /\ hostsDenied = "none" /\ hostsRaised = "none"

CommandAdd == \E arg \in SiteArgs : add(arg)

CommandRemove == \E arg \in SiteArgs : remove(arg)

NextSiteCommands == CommandAdd \/ CommandRemove

SpecSiteCommands == InitSiteCommands /\ [][NextSiteCommands]_vars

\* kill_blocked_apps and restart_browsers on a process table of blocked
\* apps, browsers and other programs, with the listing working or failing.
InitListing ==
    /\ surface = "listing" /\ HostsIdle /\ PolicyIdle /\ DaemonIdle /\ LoopIdle /\ ConfigIdle
    /\ procTable \in SUBSET {"A.exe", "B.exe", "C.exe", "chrome.exe", "firefox.exe"}
    /\ tableBefore = {}
    /\ appsArg = <<>>
    /\ snapshot = NoSnapshot
    /\ raisedFor = {}
    /\ attempts = <<>>
    /\ killed = 0
    /\ requests = <<>>
    /\ listing = NoListing

ListingKill ==
    \E apps \in AppLists, listingFails \in BOOLEAN :
        /\ kill_blocked_apps(apps, listingFails, {})
        /\ UNCHANGED <<hostsVars, policyVars, daemonVars, loopVars, configVars, surface>>

ListingRestart ==
    \E listingFails \in BOOLEAN :
        /\ restart_browsers(listingFails, {})
        /\ UNCHANGED <<hostsVars, policyVars, daemonVars, loopVars, configVars, surface>>

NextListing == ListingKill \/ ListingRestart

SpecListing == InitListing /\ [][NextListing]_vars

\* Both writers, each from every initial content of its own resource.
InitWriters == InitHosts \/ InitPolicy

NextWriters ==
    \/ surface = "hosts" /\ NextHosts
    \/ surface = "policy" /\ NextPolicy

SpecWriters == InitWriters /\ [][NextWriters]_vars

\* ------------------------------------------------------------------------
\* Properties of the hosts file and the policy store
\* ------------------------------------------------------------------------
IsStartLine(l) == l \in {BLOCK_MARKER_START, PaddedStart}
IsEndLine(l) == l = BLOCK_MARKER_END
IsMarkerLine(l) == IsStartLine(l) \/ IsEndLine(l)

StartLines(f) == {i \in 1..Len(f) : IsStartLine(f[i])}
EndLines(f) == {i \in 1..Len(f) : IsEndLine(f[i])}

\* f holds one well-formed managed region: one START line, one END line
\* after it.
OneRegion(f) ==
    /\ Cardinality(StartLines(f)) = 1
    /\ Cardinality(EndLines(f)) = 1
    /\ \A i \in StartLines(f) : \A j \in EndLines(f) : i < j

RegionStart(f) == CHOOSE i \in StartLines(f) : TRUE
RegionEnd(f) == CHOOSE j \in EndLines(f) : TRUE

\* The lines of f outside its one region, in order.
Outside(f) ==
    SubSeq(f, 1, RegionStart(f) - 1) \o SubSeq(f, RegionEnd(f) + 1, Len(f))

\* The lines strictly inside the one region of f.
Inside(f) == SubSeq(f, RegionStart(f) + 1, RegionEnd(f) - 1)

\* f without its trailing empty lines (the same text up to trailing newlines)
RECURSIVE DropTrailingEmpty(_)
DropTrailingEmpty(f) ==
    IF f # <<>> /\ f[Len(f)] = ""
    THEN DropTrailingEmpty(SubSeq(f, 1, Len(f) - 1))
    ELSE f

\* The entries a location must hold for the list urls: keys "1".."N" in order.
HoldsExactly(key, urls) ==
    /\ DOMAIN key.vals = {Str(i) : i \in 1..Len(urls)}
    /\ \A i \in 1..Len(urls) : key.vals[Str(i)] = urls[i]

\* C2: after apply_url_blocks(patterns), whatever the store held before,
\* every vendor location holds exactly the keys "1".."N" mapping to the
\* patterns in order (no key at all when N = 0).
C2_OrdinalInvariant ==
    lastUrlOp.name = "apply" =>
        \A loc \in Locations : HoldsExactly(registry[loc], lastUrlOp.urls)

\* C3: applying the same lists twice in a row changes nothing the second
\* time: the hosts file after the second block_sites(domains) is identical
\* to the file after the first, and every vendor location holds the same
\* entries after the second apply_url_blocks(patterns) as after the first.
C3_Idempotent ==
    /\ (lastOp.name = "block" /\ prevOp = lastOp) => hosts = hostsBefore
    /\ (lastUrlOp.name = "apply" /\ prevUrlOp = lastUrlOp) =>
            \A loc \in Locations : registry[loc].vals = regBefore[loc].vals

\* A second block_sites of the same two domains, on a file that first held
\* text and a stale region.
C3_Witness ==
    /\ lastOp.name = "block" /\ prevOp = lastOp /\ Len(lastOp.sites) = 2
    /\ StartLines(hostsBefore2) # {}
    /\ \E i \in 1..Len(hostsBefore2) : hostsBefore2[i] = "10.0.0.1 a.lan"

\* C4: from a hosts content C without marker lines, block_sites(D) followed
\* by unblock_sites() leaves C up to the number of trailing newlines.
C4_RoundTrip ==
    (/\ prevOp.name = "block" /\ lastOp.name = "unblock"
     /\ \A i \in 1..Len(hostsBefore2) : ~IsMarkerLine(hostsBefore2[i]))
    => DropTrailingEmpty(hosts) = DropTrailingEmpty(hostsBefore2)

\* block_sites of two domains, then unblock_sites, on a file of two lines
\* of text with a blank line between them.
C4_Witness ==
    /\ prevOp.name = "block" /\ lastOp.name = "unblock"
    /\ Len(prevOp.sites) = 2
    /\ hostsBefore2 = <<"10.0.0.1 a.lan", "", "10.0.0.2 b.lan", "">>
    /\ OneRegion(hostsBefore)

\* There is text before and text after the one region of f.
TextAround(f) ==
    /\ OneRegion(f)
    /\ \E i \in 1..(RegionStart(f) - 1) : f[i] # ""
    /\ \E i \in (RegionEnd(f) + 1)..Len(f) : f[i] # ""

\* C5: block_sites on a file with unrelated lines before and after its
\* managed region keeps every unrelated line, unchanged and in order (the
\* text outside the region is the same up to trailing newlines); the region
\* alone changes, to the redirect lines of the new list.
C5_UnrelatedKept ==
    (lastOp.name = "block" /\ TextAround(hostsBefore)) =>
        /\ OneRegion(hosts)
        /\ DropTrailingEmpty(Outside(hosts)) = DropTrailingEmpty(Outside(hostsBefore))
        /\ Inside(hosts) =
               [i \in 1..Len(lastOp.sites) |-> "127.0.0.1 " \o lastOp.sites[i]]

\* block_sites of two domains on a file whose (empty) region stands between
\* two different lines of text.
C5_Witness ==
    /\ lastOp.name = "block" /\ Len(lastOp.sites) = 2
    /\ TextAround(hostsBefore)
    /\ hostsBefore[1] # hostsBefore[Len(hostsBefore)]
    /\ Inside(hosts) # Inside(hostsBefore)

\* C6: after block_sites the hosts file holds exactly one START marker line
\* and one END marker line, after unblock_sites it holds no marker line,
\* whatever marker lines the file held before.
C6_OneRegion ==
    /\ lastOp.name = "block" => OneRegion(hosts)
    /\ lastOp.name = "unblock" =>
            \A i \in 1..Len(hosts) : ~IsMarkerLine(hosts[i])

\* block_sites on a file that held two START marker lines (one of them
\* padded) and no END marker line, after an earlier operation.
C6_Witness ==
    /\ lastOp.name = "block" /\ prevOp.name = "unblock"
    /\ Cardinality(StartLines(hostsBefore2)) = 2
    /\ EndLines(hostsBefore2) = {}
    /\ \E i \in 1..Len(hostsBefore2) : hostsBefore2[i] = PaddedStart

\* C16: when reading the existing hosts file, or opening it for writing, is
\* denied, block_sites and unblock_sites raise PermissionError and the
\* hosts file is what it was; a missing hosts file is read as empty content
\* and raises nothing.
C16_PermissionDenied ==
    lastOp # NoOp =>
        /\ ((hostsDenied = "read" /\ hostsWas # NoFile) \/ hostsDenied = "write") =>
               (hostsRaised = "PermissionError" /\ hosts = hostsWas)
        /\ (hostsWas = NoFile /\ hostsDenied # "write") =>
               /\ hostsRaised = "none"
               /\ hostsBefore = <<"">>
               /\ hosts = IF lastOp.name = "block"
                          THEN BlockContent(<<"">>, lastOp.sites)
                          ELSE remove_blocker_entries(<<"">>)

\* Reading a hosts file with two entries was denied to block_sites.
C16_Witness ==
    /\ lastOp = [name |-> "block", sites |-> <<"x.com">>]
    /\ hostsDenied = "read"
    /\ hostsRaised = "PermissionError"
    /\ hosts = <<"10.0.0.1 a.lan", "10.0.0.2 b.lan", "">>

\* ------------------------------------------------------------------------
\* Properties of app enforcement
\* ------------------------------------------------------------------------
\* The positions of the blocked list whose lowercase name is in the snapshot.
Targeted == {i \in 1..Len(appsArg) : Lower(appsArg[i]) \in snapshot}

\* C7: kill_blocked_apps calls taskkill /F /IM for exactly the names of the
\* blocked list whose lowercase form is in the snapshot it took, in list
\* order and for no other name, and returns the number of those names
\* whose call did not raise.
C7_Selective ==
    snapshot # NoSnapshot =>
        /\ Len(attempts) = Cardinality(Targeted)
        /\ \A k \in 1..Len(attempts) :
               \E i \in Targeted :
                   /\ attempts[k] = appsArg[i]
                   /\ Cardinality({j \in Targeted : j <= i}) = k
        /\ killed = Cardinality({i \in Targeted : appsArg[i] \notin raisedFor})

\* Running {A.exe, B.exe}, blocked <<A.exe, C.exe>>, no call raises: only
\* A.exe is targeted and the result is 1.
C7_Witness ==
    /\ tableBefore = {"A.exe", "B.exe"}
    /\ appsArg = <<"A.exe", "C.exe">>
    /\ raisedFor = {}
    /\ snapshot = {"a.exe", "b.exe"}
    /\ attempts = <<"A.exe">>
    /\ killed = 1
    /\ procTable = {"B.exe"}

\* C15: when the taskkill call for a blocked name raises, that name adds
\* nothing to the result, and every name after it in the list whose
\* lowercase form is in the snapshot still gets its taskkill call, after the
\* call that raised.
C15_RaiseSkipped ==
    snapshot # NoSnapshot =>
        /\ killed = Len(attempts)
                     - Cardinality({k \in 1..Len(attempts) : attempts[k] \in raisedFor})
        /\ \A i \in Targeted :
               appsArg[i] \in raisedFor =>
                   \E k \in 1..Len(attempts) :
                       /\ attempts[k] = appsArg[i]
                       /\ \A j \in Targeted :
                              j > i => \E n \in (k + 1)..Len(attempts) :
                                           attempts[n] = appsArg[j]

\* The call for A.exe raised; B.exe after it was still ended and is the
\* only name counted.
C15_Witness ==
    /\ appsArg = <<"A.exe", "B.exe">>
    /\ raisedFor = {"A.exe"}
    /\ tableBefore = {"A.exe", "B.exe", "C.exe"}
    /\ attempts = <<"A.exe", "B.exe">>
    /\ killed = 1
    /\ procTable = {"A.exe", "C.exe"}

\* ------------------------------------------------------------------------
\* Properties of the daemon lock
\* ------------------------------------------------------------------------
InLoop(d) == pc[d] \in {"tick", "sleep"}

\* C1: at every moment at most one reconciliation loop is running, counting
\* the loops of all `daemon` commands and the tray application's loop.
C1_SingleLoop ==
    Cardinality({d \in Daemons : InLoop(d)}) + (IF tray = "loop" THEN 1 ELSE 0) <= 1

\* C8: when the pid that daemon startup reads from the lock file is absent
\* from the process table, startup issues no termination request, discards
\* the lock and then writes a lock file holding its own pid; it has done
\* all of that when its loop runs.
C8_StaleDiscarded ==
    \A d \in Daemons :
        (log[d] # <<>> /\ log[d][1].ev = "m_found" /\ log[d][1].note = "absent") =>
            /\ \A i \in 1..Len(log[d]) : log[d][i].ev # "kill"
            /\ Len(log[d]) >= 2 => log[d][2] = Event("discard", NoPid, NoLockFile)
            /\ Len(log[d]) >= 3 => log[d][3] = Event("write", d, Str(d))
            /\ InLoop(d) => Len(log[d]) = 3

\* Startup found the pid of a process that is gone, discarded the lock,
\* wrote its own and runs its loop.
C8_Witness ==
    /\ pc[1] = "tick"
    /\ log[1] = <<Event("m_found", StalePid, "absent"),
                  Event("discard", NoPid, NoLockFile),
                  Event("write", 1, Str(1))>>
    /\ lock = Str(1)

C10_LockReleased ==
    \A d \in Daemons :
        /\ pc[d] \in {"done", "crashed"} =>
               /\ log[d][Len(log[d])].ev \in {"release", "release_missing"}
               /\ log[d][Len(log[d])].note = NoLockFile
               /\ \E i \in 1..(Len(log[d]) - 1) : log[d][i].ev = "write"
        /\ pc[d] = "crashed" =>
               \A i \in 1..Len(log[d]) : log[d][i].ev # "release_raised"

\* A daemon left its loop on KeyboardInterrupt when the lock file was
\* already missing, and returned.
C10_Witness ==
    \E d \in Daemons :
        /\ pc[d] = "done"
        /\ log[d][Len(log[d])] = Event("release_missing", NoPid, NoLockFile)

\* ------------------------------------------------------------------------
\* Properties of the enforcement loops
\* ------------------------------------------------------------------------
TickStart(p) == IF p = "tray" THEN "if_blocking" ELSE "load_config"

\* C11: an Exception raised by any call of a tick never ends a loop; the
\* loop that caught one later starts another tick, unless it is stopped
\* (Ctrl+C for the `daemon` command, quit for the tray) before.
C11_ErrorsCaught ==
    /\ [](\A p \in LoopProcs : lpc[p] # "crashed")
    /\ \A p \in LoopProcs :
          (lpc[p] = "except") ~>
              (lpc[p] = TickStart(p) \/ lpc[p] \in {"returned", "killed"})

\* The `daemon` loop runs a tick after a tick whose block_sites raised.
C11_Witness ==
    /\ lastTick["daemon"] = "failed"
    /\ lpc["daemon"] = "kill_blocked_apps"
    /\ exitAt["daemon"] = "none"

BlockCalls == TickCalls \o <<"restart_browsers">>

\* C12: no tick of either loop calls restart_browsers; the `block` command
\* calls it at most once, only as its last call after load_config,
\* block_sites, load_blocked_urls, apply_url_blocks, load_blocked_apps and
\* kill_blocked_apps in that order, and has called it when it is done.
C12_RecyclerOnlyInBlock ==
    /\ \A p \in LoopProcs :
          /\ lpc[p] # "restart_browsers"
          /\ \A i \in 1..Len(calls[p]) : calls[p][i] # "restart_browsers"
    /\ Cardinality({i \in 1..Len(calls["block"]) :
                       calls["block"][i] = "restart_browsers"}) <= 1
    /\ (\E i \in 1..Len(calls["block"]) : calls["block"][i] = "restart_browsers")
          => calls["block"] = BlockCalls
    /\ lpc["block"] = "done" => calls["block"] = BlockCalls

\* The `block` command ran to its end.
C12_Witness == lpc["block"] = "done" /\ calls["block"] = BlockCalls

\* ------------------------------------------------------------------------
\* Properties of restart_browsers
\* ------------------------------------------------------------------------
Rank(kind) == CASE kind = "close" -> 1 [] kind = "kill" -> 2 [] kind = "launch" -> 3

\* C13: in the requests of one restart_browsers call every graceful close
\* comes before every forced kill and every forced kill before every
\* relaunch; each browser of BROWSERS that the snapshot lists gets each of
\* the three exactly once, and no other image gets any.
C13_BatchPhases ==
    /\ \A i, j \in 1..Len(requests) :
          Rank(requests[i].kind) < Rank(requests[j].kind) => i < j
    /\ snapshot # NoSnapshot =>
          \A b \in BrowserNames \cup {"A.exe"} : \A k \in {"close", "kill", "launch"} :
              Cardinality({i \in 1..Len(requests) :
                              requests[i] = [kind |-> k, image |-> b]})
                  = IF b \in BrowserNames /\ Lower(b) \in snapshot THEN 1 ELSE 0

\* Two browsers were running and were restarted.
C13_Witness ==
    /\ Len(requests) = 6
    /\ snapshot = {"chrome.exe", "firefox.exe", "a.exe"}

\* ------------------------------------------------------------------------
\* Properties of the policy store under OS failures
\* ------------------------------------------------------------------------
\* Whether the failure f makes itself felt at a location holding key when
\* apply_url_blocks(urls) works on it.
HitsApply(f, key, urls) ==
    \/ f.create
    \/ f.undeletable \cap DOMAIN key.vals # {}
    \/ f.writeFailAt \in 1..Len(urls)

\* C14: apply_url_blocks on a non-empty list raises nothing to its caller,
\* whatever fails at whichever locations, and every location that meets no
\* failure of its own then holds exactly the keys "1".."N" with the list's
\* patterns.
C14_LocationsIndependent ==
    (lastUrlOp.name = "apply" /\ lastUrlOp.urls # <<>>) =>
        /\ ~urlRaised
        /\ \A loc \in Locations :
              ~HitsApply(urlFails[loc], regBefore[loc], lastUrlOp.urls) =>
                  registry[loc] = Key(Entries(lastUrlOp.urls))

\* Key creation was refused at the first location; the two after it, which
\* held something else, were written.
C14_Witness ==
    /\ lastUrlOp = [name |-> "apply", urls |-> <<"y.com/a", "y.com/a/*">>]
    /\ urlFails["Chrome"].create /\ regBefore["Chrome"] = NoKey
    /\ urlFails["Edge"] = NoFailure /\ urlFails["Brave"].writeFailAt = 2
    /\ regBefore["Edge"] = Key(SetValueEx(NoVals, "legacy", "z.com"))
    /\ registry["Chrome"] = NoKey
    /\ registry["Edge"] = Key(Entries(lastUrlOp.urls))
    /\ registry["Brave"] = Key(Entries(<<"y.com/a">>))

\* ------------------------------------------------------------------------
\* Properties of a tick
\* ------------------------------------------------------------------------
\* C17: after a tick that ran undisturbed and without failure, the hosts
\* file holds one managed region whose lines are the redirects of the
\* blocked_sites the tick read, in order, and every vendor location holds
\* exactly the blocked_urls the tick read, as keys "1".."N".
C17_TickConverges ==
    (lastOp.name = "block" /\ lastUrlOp.name = "apply") =>
        /\ OneRegion(hosts)
        /\ Inside(hosts) = [i \in 1..Len(lastOp.sites) |-> RedirectLine(lastOp.sites[i])]
        /\ \A loc \in Locations : HoldsExactly(registry[loc], lastUrlOp.urls)

\* C18: a stop ends a loop only between ticks: the loop stood at its sleep,
\* at the tray's while test or before the first call of a tick when the stop
\* took effect, never inside a tick, and so never between block_sites'
\* truncating open and its write.
C18_StopBetweenTicks ==
    \A p \in LoopProcs :
        exitAt[p] \in {"none", "sleep", "while", TickStart(p)}

\* C19: remove_url_blocks raises nothing to its caller; afterwards every
\* location whose key could be opened and whose values could be deleted
\* holds no value, whether or not its key was missing, whether or not the
\* emptied key could be deleted, and whatever happened at the other
\* locations; the emptied key is gone unless its deletion was refused.
C19_AllCleared ==
    lastUrlOp.name = "remove" =>
        /\ ~urlRaised
        /\ \A loc \in Locations :
              (~urlFails[loc].create
                  /\ urlFails[loc].undeletable \cap DOMAIN regBefore[loc].vals = {}) =>
                  /\ registry[loc].vals = NoVals
                  /\ registry[loc].present =
                         (regBefore[loc].present /\ urlFails[loc].keepKey)

\* The first location had no key, the second kept its emptied key, the
\* third was cleared and removed.
C19_Witness ==
    /\ lastUrlOp.name = "remove"
    /\ regBefore["Chrome"] = NoKey
    /\ regBefore["Edge"] = Key(SetValueEx(NoVals, "1", "y.com/a"))
    /\ urlFails["Edge"].keepKey
    /\ regBefore["Brave"] = Key(SetValueEx(NoVals, "legacy", "z.com"))
    /\ urlFails["Brave"] = NoFailure
    /\ registry = [loc \in Locations |-> IF loc = "Edge" THEN Key(NoVals) ELSE NoKey]

\* C20: no read_hosts of a process falls between the truncating open and
\* the write of another process's block_sites, where it would read the file
\* cut short.
C20_NoPartialRead ==
    \A p \in Procs : ~sawPartial[p]

\* ------------------------------------------------------------------------
\* Lines outside every managed region
\* ------------------------------------------------------------------------
\* Line i of f lies between a START marker line and the next END marker
\* line after that START.
InRegion(f, i) ==
    \E j \in 1..(i - 1) :
        /\ IsStartLine(f[j])
        /\ \A m \in (j + 1)..(i - 1) : ~IsEndLine(f[m])
        /\ \E k \in (i + 1)..Len(f) : IsEndLine(f[k])

\* The lines of f[i..] that are no marker line and in no region, in order.
RECURSIVE KeptFrom(_, _)
KeptFrom(f, i) ==
    IF i > Len(f) THEN <<>>
    ELSE IF IsMarkerLine(f[i]) \/ InRegion(f, i) THEN KeptFrom(f, i + 1)
    ELSE <<f[i]>> \o KeptFrom(f, i + 1)

\* C21: whatever the hosts file held before, a START marker line without a
\* matching END marker line or an END without a START included, block_sites
\* and unblock_sites keep every line that is neither a marker line nor
\* located between a START marker line and the next END marker line (the
\* kept lines are the same, in order, up to trailing newlines).
C21_OtherLinesKept ==
    lastOp # NoOp =>
        DropTrailingEmpty(KeptFrom(hosts, 1)) =
            DropTrailingEmpty(KeptFrom(hostsBefore, 1))

\* ------------------------------------------------------------------------
\* Properties of the lock under the `stop` command
\* ------------------------------------------------------------------------
\* C22: under every interleaving of daemon starts, the `stop` command, the
\* other calls of get_daemon_pid and the shutdown of another daemon, while
\* the loop of a `daemon` command runs the lock file exists and holds the
\* pid of that command's process.
C22_LockHeld ==
    \A d \in Daemons : InLoop(d) => lock = Str(d)

\* C23: daemon startup never issues a termination request against its own
\* pid, also when the lock file a force-killed daemon left behind holds a
\* pid that the operating system has given to the starting process: no
\* command's taskkill names the pid of the process that runs it (so that
\* startup can go on to write its own lock and run its loop).
C23_NoSelfKill ==
    \A d \in Daemons : \A i \in 1..Len(log[d]) :
        log[d][i].ev = "kill" => log[d][i].pid # d

\* ------------------------------------------------------------------------
\* Properties of the tray application's menu
\* ------------------------------------------------------------------------
\* The loop thread stands inside the "if self.is_blocking" branch of a tick.
InBlockingBranch ==
    lpc["tray"] \in {"load_config", "block_sites", "open_w", "write",
                     "load_blocked_urls", "apply_url_blocks"}

\* C24: in the tray application, under every interleaving of the loop
\* thread with toggle_blocking and quit_and_unblock on the menu thread: once
\* all operations have finished (no menu handler is running and the loop
\* thread is outside the blocking branch of its tick), if is_blocking is
\* False or "Quit & Unblock All" was chosen, the hosts file holds no marker
\* line; as ticks go on while is_blocking stays False, this covers every
\* later tick.
C24_OffStaysOff ==
    (/\ uiPc \in {"menu", "exited"}
     /\ ~InBlockingBranch
     /\ (~is_blocking \/ uiPc = "exited"))
    => (hosts # NoFile /\ \A i \in 1..Len(hosts) : ~IsMarkerLine(hosts[i]))

\* ------------------------------------------------------------------------
\* Properties of the list commands
\* ------------------------------------------------------------------------
\* C25: after any sequence of completed `addurl` and `removeurl` commands,
\* run one at a time without OS failure, every vendor policy location holds
\* exactly the keys "1".."N" mapping to the config's saved blocked_urls in
\* order, also after the command that removes the last pattern (N = 0).
C25_PolicyFollowsConfig ==
    lastUrlOp # NoUrlOp =>
        \A loc \in Locations : HoldsExactly(registry[loc], blocked_urls)

\* C26: after any sequence of completed `add` and `remove` commands, run
\* one at a time without OS failure, the hosts file holds one managed
\* region, whose lines are one loopback line per entry of the config's
\* saved blocked_sites, in the same order; and the saved list, which held
\* no duplicate before, holds none.
C26_RegionFollowsConfig ==
    lastOp # NoOp =>
        /\ OneRegion(hosts)
        /\ Inside(hosts) =
               [i \in 1..Len(blocked_sites) |-> "127.0.0.1 " \o blocked_sites[i]]
        /\ NoDuplicate(blocked_sites)

\* `add X.com` put x.com and www.x.com on an empty list, then `remove
\* www.x.com` took both off again, on a hosts file that held a line of the
\* user's and a stale region.
C26_Witness ==
    /\ prevOp = [name |-> "block", sites |-> <<"x.com", "www.x.com">>]
    /\ lastOp = [name |-> "block", sites |-> <<>>]
    /\ blocked_sites = <<>>
    /\ hostsBefore2 = <<"10.0.0.1 a.lan", BLOCK_MARKER_START>>
    /\ hosts = <<"10.0.0.1 a.lan", "", BLOCK_MARKER_START, BLOCK_MARKER_END, "">>

\* ------------------------------------------------------------------------
\* Properties of restart_browsers and of a failing process listing
\* ------------------------------------------------------------------------
\* The known browsers the snapshot of the last restart_browsers listed.
TargetedBrowsers == {b \in BrowserNames : Lower(b) \in snapshot}

\* The number of requests of one kind the last restart_browsers sent for b.
RequestCount(kind, b) ==
    Cardinality({i \in 1..Len(requests) : requests[i] = [kind |-> kind, image |-> b]})

\* C27: restart_browsers sends its requests only for known browsers that
\* the process snapshot taken at its start lists: a browser that was not
\* running is never launched; each targeted browser gets exactly one
\* graceful close, one forced termination and one relaunch attempt; a
\* relaunch that fails for one browser leaves the relaunch of the others
\* in place (they run afterwards); with no browser running no request is
\* sent at all.
C27_OnlySnapshotBrowsers ==
    snapshot # NoSnapshot =>
        /\ \A i \in 1..Len(requests) : requests[i].image \in TargetedBrowsers
        /\ \A b \in BrowserNames \ tableBefore : RequestCount("launch", b) = 0
        /\ \A b \in TargetedBrowsers :
               /\ RequestCount("close", b) = 1
               /\ RequestCount("kill", b) = 1
               /\ RequestCount("launch", b) = 1
               /\ b \notin raisedFor => b \in procTable
        /\ Len(requests) = 3 * Cardinality(TargetedBrowsers)
        /\ TargetedBrowsers = {} => requests = <<>>

\* Chrome and Firefox were running beside another program and Edge was
\* not; Chrome's relaunch failed, Firefox runs again, Edge was left alone.
C27_Witness ==
    /\ tableBefore = {"chrome.exe", "firefox.exe", "A.exe"}
    /\ snapshot = {"chrome.exe", "firefox.exe", "a.exe"}
    /\ raisedFor = {"chrome.exe"}
    /\ procTable = {"firefox.exe", "A.exe"}
    /\ Len(requests) = 6

\* C28: when the process listing fails, get_running_processes returns the
\* empty set (nothing is raised), so that kill_blocked_apps sends no
\* termination request and returns 0 and restart_browsers targets no
\* browser, whatever is running; and kill_blocked_apps on an empty list
\* returns 0 without taking a snapshot.
C28_ListingFailure ==
    /\ listing.outcome = "failed" =>
           /\ snapshot = {}
           /\ procTable = tableBefore
           /\ listing.caller = "kill_blocked_apps" => (attempts = <<>> /\ killed = 0)
           /\ listing.caller = "restart_browsers" => requests = <<>>
    /\ (listing.caller = "kill_blocked_apps" /\ appsArg = <<>>) =>
           /\ listing.outcome = "not taken"
           /\ snapshot = NoSnapshot
           /\ attempts = <<>> /\ killed = 0
           /\ procTable = tableBefore

\* The listing failed for kill_blocked_apps while a blocked app and a
\* browser were running, after a restart_browsers that had restarted the
\* browser.
C28_Witness ==
    /\ listing = Listing("kill_blocked_apps", "failed")
    /\ appsArg = <<"A.exe", "B.exe">>
    /\ procTable = {"A.exe", "chrome.exe"}
    /\ Len(requests) = 3
    /\ killed = 0

====
